---------------------------- MODULE Spec2Model ----------------------------
(***************************************************************************)
(* baileys-antiban: the decision-and-risk engine.                          *)
(*                                                                         *)
(*   RateLimiter   (src/src/rateLimiter.ts)   the Pacing Limiter           *)
(*   WarmUp        (src/src/warmup.ts)        the Activity Ramp            *)
(*   HealthMonitor (src/unnamed/part_002)     the Risk Monitor             *)
(*   AntiBan       (src/unnamed/part_001)     the Decision Orchestrator    *)
(*                                                                         *)
(* Time is Date.now() in milliseconds, kept in the variable `now`; the     *)
(* window lengths are the program's own.  The clock starts at StartClock   *)
(* (a day and an hour after the epoch) rather than at today's date so that *)
(* every timestamp fits the checker's integers; like the real clock it is  *)
(* far above lastMessageTime's initial 0.                                  *)
(* Math.random() inside jitter() is a nondeterministic choice of the       *)
(* clamped sample among Clamped.                                           *)
(* Every specification bounds the number of calls and clock advances of a  *)
(* run (the variable `ops`).                                               *)
(***************************************************************************)
EXTENDS Integers, Sequences, FiniteSets, TLC

VARIABLES
    now,          \* Date.now()
    ops,          \* number of calls and clock advances so far (bounds the run)
    config,       \* AntiBanConfig: [rateLimiter, warmUp, health]
    rateLimiter,  \* RateLimiter's fields
    warmUp,       \* WarmUp.state
    health,       \* HealthMonitor's fields
    stats,        \* AntiBan.stats
    ret,          \* the last call: its name, arguments and return value
    lastNotified, \* level last handed to the user's onRiskChange ("none": not since construction/reset)
    objects,      \* WarmUpState objects and dailyCounts arrays by reference, when instances share them
    socket,       \* wrapSocket: the wrapped sendMessage calls made so far, each with its position
    queue         \* MessageQueue's fields, its message objects and the last exported array

vars == <<now, ops, config, rateLimiter, warmUp, health, stats, ret, lastNotified, objects,
          socket, queue>>

----------------------------------------------------------------------------
(* Program constants *)

DayMs == 86400000
HourMs == 3600000
MinuteMs == 60000
SixHoursMs == 21600000
BLOCK == -1
HourFallbackMs == 60000
MinuteFallbackMs == 10000
TypingMsPerChar == 30
TypingMaxMs == 3000

StartClock == DayMs + HourMs

(* Bounds of the model *)

\* The number of calls and clock advances in a run of the orchestrator, of
\* the limiter driven alone and of the monitor driven alone.
MaxOps == 4
MaxLimiterOps == 4
MaxMonitorOps == 4
MaxRampOps == 6
MaxSnapshotOps == 5

\* The number of steps in a run of the wrapped socket, and of wrapped
\* sendMessage calls in it.
MaxSocketOps == 5
MaxCalls == 2

\* The number of steps in a run of the message queue.
MaxQueueOps == 6

\* The number of steps in a run of the serialized caller.
MaxProtocolOps == 8

\* The messages added and the seconds that pass in a run of the draining
\* queue, which is otherwise unbounded.
MaxLiveMessages == 2
MaxLiveSeconds == 3

Recipients == {"r1", "r2"}

\* Message texts as sequences of UTF-16 code units: "", "Aa", "BB".
\* "Aa" and "BB" are different texts with the same hashContent value.
Contents == {<<>>, <<65, 97>>, <<66, 66>>}

\* The value `clamped` of jitter(), as <<numerator, denominator>>: its two
\* ends, 0 and 1.
Clamped == {<<0, 1>>, <<1, 1>>}

Min(a, b) == IF a < b THEN a ELSE b
Max(a, b) == IF a > b THEN a ELSE b

\* Math.round(n / d) for d > 0: the nearest integer, halves towards +Infinity.
MathRound(n, d) == (2 * n + d) \div (2 * d)

----------------------------------------------------------------------------
(* RateLimiter *)

Digits36 == <<"0", "1", "2", "3", "4", "5", "6", "7", "8", "9",
              "a", "b", "c", "d", "e", "f", "g", "h", "i", "j",
              "k", "l", "m", "n", "o", "p", "q", "r", "s", "t",
              "u", "v", "w", "x", "y", "z">>

RECURSIVE NatToString36(_)
NatToString36(n) ==
    IF n < 36 THEN <<Digits36[n + 1]>>
    ELSE Append(NatToString36(n \div 36), Digits36[(n % 36) + 1])

\* Number.prototype.toString(36)
ToString36(n) == IF n < 0 THEN <<"-">> \o NatToString36(-n) ELSE NatToString36(n)

\* hash |= 0.  The texts of Contents keep every intermediate value far below
\* 2^31, where ToInt32 is the identity.
ToInt32(x) == x

RECURSIVE HashFrom(_, _, _)
HashFrom(content, i, hash) ==
    IF i > Len(content) THEN hash
    ELSE HashFrom(content, i + 1, ToInt32(((hash * 32) - hash) + content[i]))

hashContent(content) == ToString36(HashFrom(content, 1, 0))

\* jitter(min, max) with min = min2/2 and max = max2/2 (the callers pass x*0.5):
\* Math.round(min + clamped * (max - min)), for each value clamped can take.
jitter(min2, max2) ==
    { MathRound(c[2] * min2 + c[1] * (max2 - min2), 2 * c[2]) : c \in Clamped }

NewRateLimiter ==
    [ messages |-> <<>>,
      identicalCount |-> <<>>,
      knownChats |-> {},
      burstCount |-> 0,
      lastMessageTime |-> 0 ]

\* this.identicalCount.get(key) || 0
IdenticalGet(L, key) ==
    IF key \in DOMAIN L.identicalCount THEN L.identicalCount[key] ELSE 0

\* The window filter keeping a record whose age equals the window
Within_inclusive(msgs, t, window) == SelectSeq(msgs, LAMBDA m : t - m.timestamp <= window)

Within(msgs, t, window) == SelectSeq(msgs, LAMBDA m : t - m.timestamp < window)

RL_cleanup_clearAlways(L, t) ==
    [L EXCEPT !.messages = Within(L.messages, t, DayMs), !.identicalCount = <<>>]

\* cleanup() dropping the counter of every fingerprint that has no record left
RL_cleanup_perFingerprint(L, t) ==
    LET kept == Within(L.messages, t, DayMs)
        live == { kept[i].contentHash : i \in 1..Len(kept) }
    IN  [L EXCEPT !.messages = kept,
                  !.identicalCount =
                      [k \in DOMAIN L.identicalCount \cap live |-> L.identicalCount[k]]]

RL_cleanup(L, t) ==
    LET kept == Within(L.messages, t, DayMs)
    IN  [L EXCEPT !.messages = kept,
                  !.identicalCount = IF Len(kept) = 0 THEN <<>> ELSE @]

\* The ordered checks of getDelay: which branch returns.
RL_policy_identicalFirst(cfg, nDay, nHour, nMinute, identicalSent) ==
    IF nDay >= cfg.maxPerDay THEN "daily"
    ELSE IF identicalSent >= cfg.maxIdenticalMessages THEN "identical"
    ELSE IF nHour >= cfg.maxPerHour THEN "hourly"
    ELSE IF nMinute >= cfg.maxPerMinute THEN "minute"
    ELSE "pace"

\* The daily check matching only above the limit
RL_policy_dayAboveLimit(cfg, nDay, nHour, nMinute, identicalSent) ==
    IF nDay > cfg.maxPerDay THEN "daily"
    ELSE IF nHour >= cfg.maxPerHour THEN "hourly"
    ELSE IF nMinute >= cfg.maxPerMinute THEN "minute"
    ELSE IF identicalSent >= cfg.maxIdenticalMessages THEN "identical"
    ELSE "pace"

RL_policy(cfg, nDay, nHour, nMinute, identicalSent) ==
    IF nDay >= cfg.maxPerDay THEN "daily"
    ELSE IF nHour >= cfg.maxPerHour THEN "hourly"
    ELSE IF nMinute >= cfg.maxPerMinute THEN "minute"
    ELSE IF identicalSent >= cfg.maxIdenticalMessages THEN "identical"
    ELSE "pace"

\* oldest ? (oldest.timestamp + window) - now : fallback
RL_throttle_newest(inWindow, t, window, fallback) ==
    IF Len(inWindow) > 0 THEN (inWindow[Len(inWindow)].timestamp + window) - t ELSE fallback

RL_throttle_elapsed(inWindow, t, window, fallback) ==
    IF Len(inWindow) > 0 THEN t - (inWindow[1].timestamp + window) ELSE fallback

RL_throttle(inWindow, t, window, fallback) ==
    IF Len(inWindow) > 0 THEN (inWindow[1].timestamp + window) - t ELSE fallback

\* The default branch treating a recipient as new when none of the retained
\* records is addressed to it
RL_pace_newAfterPurge(L, cfg, t, recipient, content) ==
    LET base == IF L.burstCount < cfg.burstAllowance
                THEN jitter(cfg.minDelayMs, 2 * cfg.minDelayMs)
                ELSE jitter(2 * cfg.minDelayMs, 2 * cfg.maxDelayMs)
        newChat == IF \A i \in 1..Len(L.messages) : L.messages[i].recipient # recipient
                   THEN jitter(cfg.newChatDelayMs, 2 * cfg.newChatDelayMs)
                   ELSE {0}
        timeSinceLast == t - L.lastMessageTime
        typingDelay == Min(Len(content) * TypingMsPerChar, TypingMaxMs)
        typing == jitter(typingDelay, 2 * typingDelay)
        Floor(d) == IF timeSinceLast < cfg.minDelayMs
                    THEN Max(d, cfg.minDelayMs - timeSinceLast)
                    ELSE d
    IN  { Floor(b + n) + ty : b \in base, n \in newChat, ty \in typing }

\* The human-like delay: the values the default branch can return.
RL_pace(L, cfg, t, recipient, content) ==
    LET base == IF L.burstCount < cfg.burstAllowance
                THEN jitter(cfg.minDelayMs, 2 * cfg.minDelayMs)
                ELSE jitter(2 * cfg.minDelayMs, 2 * cfg.maxDelayMs)
        newChat == IF recipient \notin L.knownChats
                   THEN jitter(cfg.newChatDelayMs, 2 * cfg.newChatDelayMs)
                   ELSE {0}
        timeSinceLast == t - L.lastMessageTime
        typingDelay == Min(Len(content) * TypingMsPerChar, TypingMaxMs)
        typing == jitter(typingDelay, 2 * typingDelay)
        Floor(d) == IF timeSinceLast < cfg.minDelayMs
                    THEN Max(d, cfg.minDelayMs - timeSinceLast)
                    ELSE d
    IN  { Floor(b + n) + ty : b \in base, n \in newChat, ty \in typing }

\* The burst counter after the default branch ran.
RL_burst(L, cfg) ==
    IF L.burstCount < cfg.burstAllowance
    THEN [L EXCEPT !.burstCount = @ + 1]
    ELSE L

\* getDelay(recipient, content) at clock t: the set of possible
\* [result, limiter] pairs (the return value and the fields afterwards).
RL_getDelay(L, cfg, t, recipient, content) ==
    LET L1 == RL_cleanup(L, t)
        contentHash == hashContent(content)
        dayMessages == Within(L1.messages, t, DayMs)
        hourMessages == Within(L1.messages, t, HourMs)
        minuteMessages == Within(L1.messages, t, MinuteMs)
        identicalSent == IdenticalGet(L1, contentHash)
        branch == RL_policy(cfg, Len(dayMessages), Len(hourMessages),
                            Len(minuteMessages), identicalSent)
    IN  CASE branch = "daily" -> {[result |-> BLOCK, limiter |-> L1]}
          [] branch = "hourly" ->
                {[result |-> RL_throttle(hourMessages, t, HourMs, HourFallbackMs),
                  limiter |-> L1]}
          [] branch = "minute" ->
                {[result |-> RL_throttle(minuteMessages, t, MinuteMs, MinuteFallbackMs),
                  limiter |-> L1]}
          [] branch = "identical" -> {[result |-> BLOCK, limiter |-> L1]}
          [] OTHER ->
                {[result |-> d, limiter |-> RL_burst(L1, cfg)] :
                    d \in RL_pace(L1, cfg, t, recipient, content)}

\* record(recipient, content) at clock t.  The burst reset compares now with
\* lastMessageTime after lastMessageTime was set to now.
RL_record(L, t, recipient, content) ==
    LET contentHash == hashContent(content)
        count == IdenticalGet(L, contentHash) + 1
        keys == DOMAIN L.identicalCount \cup {contentHash}
        L1 == [L EXCEPT
                 !.messages = Append(@, [timestamp |-> t, recipient |-> recipient,
                                         contentHash |-> contentHash]),
                 !.knownChats = @ \cup {recipient},
                 !.lastMessageTime = t,
                 !.identicalCount =
                     [k \in keys |-> IF k = contentHash THEN count ELSE L.identicalCount[k]]]
    IN  IF t - L1.lastMessageTime > 30000
        THEN [L1 EXCEPT !.burstCount = 0]
        ELSE L1

\* getStats() at clock t: [result, limiter]
RL_getStats(L, cfg, t) ==
    LET L1 == RL_cleanup(L, t)
    IN  [ result |->
            [ lastMinute |-> Len(Within(L1.messages, t, MinuteMs)),
              lastHour |-> Len(Within(L1.messages, t, HourMs)),
              lastDay |-> Len(Within(L1.messages, t, DayMs)),
              limits |-> [ perMinute |-> cfg.maxPerMinute,
                           perHour |-> cfg.maxPerHour,
                           perDay |-> cfg.maxPerDay ],
              knownChats |-> Cardinality(L1.knownChats) ],
          limiter |-> L1 ]

----------------------------------------------------------------------------
(* WarmUp *)

\* freshState() at clock t
WU_freshState(t) ==
    [ startedAt |-> t, lastActiveAt |-> t, dailyCounts |-> <<>>, graduated |-> FALSE ]

\* getCurrentDay()
WU_getCurrentDay(W, t) == (t - W.startedAt) \div DayMs

\* this.state.dailyCounts[day] || 0
WU_countOf(W, day) ==
    IF day + 1 \in DOMAIN W.dailyCounts THEN W.dailyCounts[day + 1] ELSE 0

RECURSIVE Pow(_, _)
Pow(b, e) == IF e = 0 THEN 1 ELSE b * Pow(b, e - 1)

\* getDailyLimit(): [infinite, limit, state].  growthFactor is the rational
\* growthNum / growthDen.
WU_getDailyLimit_lateGraduation(W, cfg, t) ==
    LET day == WU_getCurrentDay(W, t)
    IN  IF W.graduated THEN [infinite |-> TRUE, limit |-> 0, state |-> W]
        ELSE IF day > cfg.warmUpDays
             THEN [infinite |-> TRUE, limit |-> 0, state |-> [W EXCEPT !.graduated = TRUE]]
             ELSE [infinite |-> FALSE,
                   limit |-> MathRound(cfg.day1Limit * Pow(cfg.growthNum, day),
                                       Pow(cfg.growthDen, day)),
                   state |-> W]

WU_getDailyLimit(W, cfg, t) ==
    LET day == WU_getCurrentDay(W, t)
    IN  IF W.graduated THEN [infinite |-> TRUE, limit |-> 0, state |-> W]
        ELSE IF day >= cfg.warmUpDays
             THEN [infinite |-> TRUE, limit |-> 0, state |-> [W EXCEPT !.graduated = TRUE]]
             ELSE [infinite |-> FALSE,
                   limit |-> MathRound(cfg.day1Limit * Pow(cfg.growthNum, day),
                                       Pow(cfg.growthDen, day)),
                   state |-> W]

\* checkInactivity()
WU_checkInactivity_atThreshold(W, cfg, t) ==
    IF (t - W.lastActiveAt) >= cfg.inactivityThresholdHours * HourMs /\ W.graduated
    THEN WU_freshState(t)
    ELSE W

WU_checkInactivity(W, cfg, t) ==
    IF (t - W.lastActiveAt) > cfg.inactivityThresholdHours * HourMs /\ W.graduated
    THEN WU_freshState(t)
    ELSE W

\* canSend(): [result, state]
WU_canSend_atLimit(W, cfg, t) ==
    LET W1 == WU_checkInactivity(W, cfg, t)
        day == WU_getCurrentDay(W1, t)
        todayCount == WU_countOf(W1, day)
        lim == WU_getDailyLimit(W1, cfg, t)
    IN  IF W1.graduated THEN [result |-> TRUE, state |-> W1]
        ELSE [result |-> lim.infinite \/ todayCount <= lim.limit, state |-> lim.state]

WU_canSend(W, cfg, t) ==
    LET W1 == WU_checkInactivity(W, cfg, t)
        day == WU_getCurrentDay(W1, t)
        todayCount == WU_countOf(W1, day)
        lim == WU_getDailyLimit(W1, cfg, t)
    IN  IF W1.graduated THEN [result |-> TRUE, state |-> W1]
        ELSE [result |-> lim.infinite \/ todayCount < lim.limit, state |-> lim.state]

\* record()
WU_record(W, t) ==
    LET day == WU_getCurrentDay(W, t)
        n == Max(Len(W.dailyCounts), day + 1)
        padded == [i \in 1..n |-> IF i <= Len(W.dailyCounts) THEN W.dailyCounts[i] ELSE 0]
    IN  [W EXCEPT !.dailyCounts = [padded EXCEPT ![day + 1] = @ + 1],
                  !.lastActiveAt = t]

\* getStatus(): [result, state]
WU_getStatus_checksInactivity(W, cfg, t) ==
    LET W0 == WU_checkInactivity(W, cfg, t)
        day == WU_getCurrentDay(W0, t)
        todaySent == WU_countOf(W0, day)
        lim == WU_getDailyLimit(W0, cfg, t)
        W1 == lim.state
    IN  [ result |->
            [ phase |-> IF W1.graduated THEN "graduated" ELSE "warming",
              day |-> Min(day + 1, cfg.warmUpDays),
              totalDays |-> cfg.warmUpDays,
              todayLimit |-> IF lim.infinite THEN -1 ELSE lim.limit,
              todaySent |-> todaySent,
              progress |-> IF W1.graduated THEN 100
                           ELSE MathRound(day * 100, cfg.warmUpDays) ],
          state |-> W1 ]

WU_getStatus(W, cfg, t) ==
    LET day == WU_getCurrentDay(W, t)
        todaySent == WU_countOf(W, day)
        lim == WU_getDailyLimit(W, cfg, t)
        W1 == lim.state
    IN  [ result |->
            [ phase |-> IF W1.graduated THEN "graduated" ELSE "warming",
              day |-> Min(day + 1, cfg.warmUpDays),
              totalDays |-> cfg.warmUpDays,
              todayLimit |-> IF lim.infinite THEN -1 ELSE lim.limit,
              todaySent |-> todaySent,
              progress |-> IF W1.graduated THEN 100
                           ELSE MathRound(day * 100, cfg.warmUpDays) ],
          state |-> W1 ]

\* exportState(): the fields of { ...this.state }
WU_exportState(W) ==
    [ startedAt |-> W.startedAt, lastActiveAt |-> W.lastActiveAt,
      dailyCounts |-> W.dailyCounts, graduated |-> W.graduated ]

\* reset() at clock t
WU_reset(W, t) == WU_freshState(t)

\* No wrapped sendMessage call was made; no MessageQueue was constructed.
NoSocket == <<>>

NoQueue == <<>>

\* WarmUp instances whose state objects and dailyCounts arrays are held by
\* reference.  states[r] is a WarmUpState object whose dailyCounts field is an
\* index into arrays; ramps[i] is this.state of instance i (0: not
\* constructed); snapshot is the object the last exportState() returned (0:
\* none yet).
NoObjects ==
    [ states |-> <<>>, arrays |-> <<>>, ramps |-> [a |-> 0, b |-> 0], snapshot |-> 0 ]

\* The fields of the object states[ref], its array read through.
Obj_read(O, ref) ==
    [ startedAt |-> O.states[ref].startedAt,
      lastActiveAt |-> O.states[ref].lastActiveAt,
      dailyCounts |-> O.arrays[O.states[ref].dailyCounts],
      graduated |-> O.states[ref].graduated ]

\* Assignments to the fields of states[ref] and to the elements of its array.
Obj_write(O, ref, W) ==
    [O EXCEPT !.states[ref] = [@ EXCEPT !.startedAt = W.startedAt,
                                        !.lastActiveAt = W.lastActiveAt,
                                        !.graduated = W.graduated],
              !.arrays[O.states[ref].dailyCounts] = W.dailyCounts]

\* this.state = this.freshState(): a new object with a new array.
Obj_replaceState(O, i, W) ==
    [O EXCEPT !.arrays = Append(@, W.dailyCounts),
              !.states = Append(@, [ startedAt |-> W.startedAt,
                                     lastActiveAt |-> W.lastActiveAt,
                                     dailyCounts |-> Len(O.arrays) + 1,
                                     graduated |-> W.graduated ]),
              !.ramps[i] = Len(O.states) + 1]

\* new WarmUp(config, existingState): this.state = existingState || this.freshState()
Inst_new(O, i, existingState, t) ==
    IF existingState # 0 THEN [O EXCEPT !.ramps[i] = existingState]
    ELSE Obj_replaceState(O, i, WU_freshState(t))

\* canSend() of instance i: [result, objects]
Inst_canSend(O, i, cfg, t) ==
    LET W == Obj_read(O, O.ramps[i])
        c == WU_canSend(W, cfg, t)
    IN  [ result |-> c.result,
          objects |-> IF WU_checkInactivity(W, cfg, t) # W
                      THEN Obj_replaceState(O, i, c.state)
                      ELSE Obj_write(O, O.ramps[i], c.state) ]

\* record() of instance i
Inst_record(O, i, t) ==
    Obj_write(O, O.ramps[i], WU_record(Obj_read(O, O.ramps[i]), t))

\* getDailyLimit() of instance i: [result, objects]
Inst_getDailyLimit(O, i, cfg, t) ==
    LET l == WU_getDailyLimit(Obj_read(O, O.ramps[i]), cfg, t)
    IN  [ result |-> [infinite |-> l.infinite, limit |-> l.limit],
          objects |-> Obj_write(O, O.ramps[i], l.state) ]

\* getStatus() of instance i: [result, objects]
Inst_getStatus(O, i, cfg, t) ==
    LET s == WU_getStatus(Obj_read(O, O.ramps[i]), cfg, t)
    IN  [ result |-> s.result, objects |-> Obj_write(O, O.ramps[i], s.state) ]

\* exportState() of instance i: { ...this.state }, a new object with the
\* fields of this.state, the dailyCounts field being the same array.
Inst_exportState_freshCounts(O, i) ==
    [O EXCEPT !.arrays = Append(@, <<>>),
              !.states = Append(@, [O.states[O.ramps[i]] EXCEPT
                                       !.dailyCounts = Len(O.arrays) + 1]),
              !.snapshot = Len(O.states) + 1]

Inst_exportState(O, i) ==
    [O EXCEPT !.states = Append(@, O.states[O.ramps[i]]),
              !.snapshot = Len(O.states) + 1]

\* reset() of instance i
Inst_reset(O, i, t) == Obj_replaceState(O, i, WU_reset(Obj_read(O, O.ramps[i]), t))

\* AntiBan.exportWarmUpState() and the warmUpState argument of the AntiBan
\* constructor hand the object through.
AB_exportWarmUpState(O, i) == Inst_exportState(O, i)

AB_new(O, i, warmUpState, t) == Inst_new(O, i, warmUpState, t)

----------------------------------------------------------------------------
(* HealthMonitor *)

RiskOrder == <<"low", "medium", "high", "critical">>

\* riskOrder.indexOf(level)
IndexOf(level) == CHOOSE i \in 1..Len(RiskOrder) : RiskOrder[i] = level

NewHealthMonitor(t) ==
    [ events |-> <<>>, startTime |-> t, paused |-> FALSE, lastRisk |-> "low" ]

\* cleanup(now) keeping one hour of events, the window of the score
HM_cleanup_scoreWindow(H, t) ==
    [H EXCEPT !.events = SelectSeq(@, LAMBDA e : t - e.timestamp < HourMs)]

HM_cleanup(H, t) ==
    [H EXCEPT !.events = SelectSeq(@, LAMBDA e : t - e.timestamp < SixHoursMs)]

CountType(evts, type) == Len(SelectSeq(evts, LAMBDA e : e.type = type))

\* score = Math.min(100, score)
HM_clamp_unclamped(score) == score

HM_clamp(score) == Min(100, score)

\* The score of getStatus() before it is clamped.
HM_rawScore(cfg, forbidden, loggedOut, disconnects, failedMessages) ==
    (IF forbidden > 0 THEN 40 * forbidden ELSE 0)
    + (IF loggedOut > 0 THEN 60 ELSE 0)
    + (IF disconnects >= cfg.disconnectCriticalThreshold THEN 30
       ELSE IF disconnects >= cfg.disconnectWarningThreshold THEN 15 ELSE 0)
    + (IF failedMessages >= cfg.failedMessageThreshold THEN 20 ELSE 0)

\* The reasons of getStatus(), each as [kind, n] (n: the count the text names).
HM_reasons(cfg, forbidden, loggedOut, disconnects, failedMessages) ==
    LET r1 == IF forbidden > 0 THEN <<[kind |-> "forbidden", n |-> forbidden]>> ELSE <<>>
        r2 == IF loggedOut > 0 THEN <<[kind |-> "loggedOut", n |-> 0]>> ELSE <<>>
        r3 == IF disconnects >= cfg.disconnectCriticalThreshold
              THEN <<[kind |-> "disconnectsCritical", n |-> disconnects]>>
              ELSE IF disconnects >= cfg.disconnectWarningThreshold
                   THEN <<[kind |-> "disconnects", n |-> disconnects]>>
                   ELSE <<>>
        r4 == IF failedMessages >= cfg.failedMessageThreshold
              THEN <<[kind |-> "failedMessages", n |-> failedMessages]>> ELSE <<>>
        all == r1 \o r2 \o r3 \o r4
    IN  IF Len(all) > 0 THEN all ELSE <<[kind |-> "noIssues", n |-> 0]>>

HM_riskOf(score) ==
    IF score >= 85 THEN "critical"
    ELSE IF score >= 60 THEN "high"
    ELSE IF score >= 30 THEN "medium"
    ELSE "low"

HM_recommendation(risk) ==
    CASE risk = "critical" -> "stopAll"
      [] risk = "high" -> "reduce80"
      [] risk = "medium" -> "reduce50"
      [] OTHER -> "normal"

\* lastDisconnect?.detail ("undefined": no such event)
HM_lastDisconnectReason(evts) ==
    LET idx == { i \in 1..Len(evts) : evts[i].type \in {"disconnect", "forbidden", "loggedOut"} }
    IN  IF idx = {} THEN "undefined"
        ELSE evts[CHOOSE i \in idx : \A j \in idx : j <= i].detail

\* getStatus() at clock t: [result, health]
HM_getStatus(H, cfg, t) ==
    LET H1 == HM_cleanup(H, t)
        hourEvents == SelectSeq(H1.events, LAMBDA e : t - e.timestamp < HourMs)
        disconnects == CountType(hourEvents, "disconnect")
        forbidden == CountType(hourEvents, "forbidden")
        loggedOut == CountType(hourEvents, "loggedOut")
        failedMessages == CountType(hourEvents, "messageFailed")
        score == HM_clamp(HM_rawScore(cfg, forbidden, loggedOut, disconnects, failedMessages))
        risk == HM_riskOf(score)
    IN  [ result |->
            [ risk |-> risk,
              score |-> score,
              reasons |-> HM_reasons(cfg, forbidden, loggedOut, disconnects, failedMessages),
              recommendation |-> HM_recommendation(risk),
              stats |-> [ disconnectsLastHour |-> disconnects,
                          failedMessagesLastHour |-> failedMessages,
                          forbiddenErrors |-> forbidden,
                          uptimeMs |-> t - H1.startTime,
                          lastDisconnectReason |-> HM_lastDisconnectReason(H1.events) ] ],
          health |-> H1 ]

\* isPaused(): [result, health]
HM_isPaused_manualOnly(H, cfg, t) ==
    [ result |-> H.paused, health |-> H ]

\* isPaused() answering from the level reported last instead of a fresh one
HM_isPaused_byLastRisk(H, cfg, t) ==
    IF H.paused THEN [result |-> TRUE, health |-> H]
    ELSE [ result |-> IndexOf(H.lastRisk) >= IndexOf(cfg.autoPauseAt),
           health |-> HM_getStatus(H, cfg, t).health ]

HM_isPaused(H, cfg, t) ==
    IF H.paused THEN [result |-> TRUE, health |-> H]
    ELSE LET s == HM_getStatus(H, cfg, t)
         IN  [ result |-> IndexOf(s.result.risk) >= IndexOf(cfg.autoPauseAt),
               health |-> s.health ]

\* setPaused(paused)
HM_setPaused(H, paused) == [H EXCEPT !.paused = paused]

\* reset() at clock t
HM_reset(H, t) == NewHealthMonitor(t)

\* checkAndNotify(): [health, notified], notified the sequence of statuses
\* config.onRiskChange was called with.
HM_checkAndNotify_always(H, cfg, t) ==
    LET s == HM_getStatus(H, cfg, t)
    IN  [ health |-> [s.health EXCEPT !.lastRisk = s.result.risk],
          notified |-> <<s.result>> ]

HM_checkAndNotify(H, cfg, t) ==
    LET s == HM_getStatus(H, cfg, t)
    IN  IF s.result.risk # H.lastRisk
        THEN [ health |-> [s.health EXCEPT !.lastRisk = s.result.risk],
               notified |-> <<s.result>> ]
        ELSE [ health |-> s.health, notified |-> <<>> ]

\* The event type recordDisconnect gives a reason (after String(reason)).
HM_classify(reasonStr) ==
    IF reasonStr = "403" \/ reasonStr = "forbidden" THEN "forbidden"
    ELSE IF reasonStr = "401" \/ reasonStr = "loggedOut" THEN "loggedOut"
    ELSE "disconnect"

\* recordDisconnect(reason): [health, notified]
HM_recordDisconnect(H, cfg, t, reasonStr) ==
    HM_checkAndNotify(
        [H EXCEPT !.events = Append(@, [type |-> HM_classify(reasonStr),
                                        timestamp |-> t, detail |-> reasonStr])],
        cfg, t)

\* recordReconnect()
HM_recordReconnect(H, t) ==
    [H EXCEPT !.events = Append(@, [type |-> "reconnect", timestamp |-> t,
                                    detail |-> "undefined"])]

\* recordMessageFailed(error): [health, notified]
HM_recordMessageFailed(H, cfg, t, error) ==
    HM_checkAndNotify(
        [H EXCEPT !.events = Append(@, [type |-> "messageFailed", timestamp |-> t,
                                        detail |-> error])],
        cfg, t)

----------------------------------------------------------------------------
(* AntiBan *)

NewStats == [ messagesAllowed |-> 0, messagesBlocked |-> 0, totalDelayMs |-> 0 ]

\* The wrapper the constructor installs as the monitor's onRiskChange: the
\* statuses config.health.onRiskChange (the user's callback) is called with.
AB_onRiskChange(notified) == notified

\* An outcome of beforeSend: the SendDecision, the fields afterwards, the
\* component methods called (in order) and what getDelay returned, if called.
\* reason "undefined": no reason; warmUpDay -1: no warmUpDay.
AB_blockedByHealth(hs, H1, W, L, S) ==
    [ decision |-> [ allowed |-> FALSE, delayMs |-> 0, reason |-> "Health risk",
                     health |-> hs, warmUpDay |-> -1 ],
      health |-> H1, warmUp |-> W, rateLimiter |-> L,
      stats |-> [S EXCEPT !.messagesBlocked = @ + 1],
      calls |-> <<"health.getStatus", "health.isPaused">>,
      limiterReturned |-> <<>> ]

AB_blockedByWarmUp_uncounted(hs, H1, W1, L, S, cfg, t) ==
    LET ws == WU_getStatus(W1, cfg.warmUp, t)
    IN  [ decision |-> [ allowed |-> FALSE, delayMs |-> 0, reason |-> "Warm-up limit",
                         health |-> hs, warmUpDay |-> ws.result.day ],
          health |-> H1, warmUp |-> ws.state, rateLimiter |-> L,
          stats |-> S,
          calls |-> <<"health.getStatus", "health.isPaused", "warmUp.canSend",
                      "warmUp.getStatus">>,
          limiterReturned |-> <<>> ]

AB_blockedByWarmUp(hs, H1, W1, L, S, cfg, t) ==
    LET ws == WU_getStatus(W1, cfg.warmUp, t)
    IN  [ decision |-> [ allowed |-> FALSE, delayMs |-> 0, reason |-> "Warm-up limit",
                         health |-> hs, warmUpDay |-> ws.result.day ],
          health |-> H1, warmUp |-> ws.state, rateLimiter |-> L,
          stats |-> [S EXCEPT !.messagesBlocked = @ + 1],
          calls |-> <<"health.getStatus", "health.isPaused", "warmUp.canSend",
                      "warmUp.getStatus">>,
          limiterReturned |-> <<>> ]

AB_byLimiter_rawDelay(hs, H1, W1, S, g) ==
    [ decision |-> [ allowed |-> g.result # -1, delayMs |-> g.result,
                     reason |-> IF g.result = -1
                                THEN "Rate limit exceeded or identical message spam detected"
                                ELSE "undefined",
                     health |-> hs, warmUpDay |-> -1 ],
      health |-> H1, warmUp |-> W1, rateLimiter |-> g.limiter,
      stats |-> IF g.result = -1 THEN [S EXCEPT !.messagesBlocked = @ + 1]
                ELSE [S EXCEPT !.totalDelayMs = @ + g.result],
      calls |-> <<"health.getStatus", "health.isPaused", "warmUp.canSend",
                  "rateLimiter.getDelay">>,
      limiterReturned |-> <<g.result>> ]

AB_byLimiter(hs, H1, W1, S, g) ==
    IF g.result = -1
    THEN [ decision |-> [ allowed |-> FALSE, delayMs |-> 0,
                          reason |-> "Rate limit exceeded or identical message spam detected",
                          health |-> hs, warmUpDay |-> -1 ],
           health |-> H1, warmUp |-> W1, rateLimiter |-> g.limiter,
           stats |-> [S EXCEPT !.messagesBlocked = @ + 1],
           calls |-> <<"health.getStatus", "health.isPaused", "warmUp.canSend",
                       "rateLimiter.getDelay">>,
           limiterReturned |-> <<g.result>> ]
    ELSE [ decision |-> [ allowed |-> TRUE, delayMs |-> g.result, reason |-> "undefined",
                          health |-> hs, warmUpDay |-> -1 ],
           health |-> H1, warmUp |-> W1, rateLimiter |-> g.limiter,
           stats |-> [S EXCEPT !.totalDelayMs = @ + g.result],
           calls |-> <<"health.getStatus", "health.isPaused", "warmUp.canSend",
                       "rateLimiter.getDelay">>,
           limiterReturned |-> <<g.result>> ]

\* beforeSend(recipient, content) at clock t: the set of possible outcomes.
AB_beforeSend_rampFirst(H, W, L, S, cfg, t, recipient, content) ==
    LET hs == HM_getStatus(H, cfg.health, t)
        cs == WU_canSend(W, cfg.warmUp, t)
        p == HM_isPaused(hs.health, cfg.health, t)
    IN  IF ~cs.result
        THEN {AB_blockedByWarmUp(hs.result, hs.health, cs.state, L, S, cfg, t)}
        ELSE IF p.result
             THEN {AB_blockedByHealth(hs.result, p.health, cs.state, L, S)}
             ELSE { AB_byLimiter(hs.result, p.health, cs.state, S, g) :
                      g \in RL_getDelay(L, cfg.rateLimiter, t, recipient, content) }

AB_beforeSend(H, W, L, S, cfg, t, recipient, content) ==
    LET hs == HM_getStatus(H, cfg.health, t)
        p == HM_isPaused(hs.health, cfg.health, t)
        cs == WU_canSend(W, cfg.warmUp, t)
    IN  IF p.result
        THEN {AB_blockedByHealth(hs.result, p.health, W, L, S)}
        ELSE IF ~cs.result
             THEN {AB_blockedByWarmUp(hs.result, p.health, cs.state, L, S, cfg, t)}
             ELSE { AB_byLimiter(hs.result, p.health, cs.state, S, g) :
                      g \in RL_getDelay(L, cfg.rateLimiter, t, recipient, content) }

\* reset() at clock t: the fields afterwards.
AB_reset(H, W, L, S, t) ==
    [ health |-> HM_reset(H, t), warmUp |-> WU_freshState(t), rateLimiter |-> L,
      stats |-> NewStats ]

\* pause() / resume(): the monitor afterwards.
AB_pause(H) == HM_setPaused(H, TRUE)

AB_resume_noop(H) == H

AB_resume(H) == HM_setPaused(H, FALSE)

----------------------------------------------------------------------------
(* Configurations and inputs *)

RLConfig(perMinute, perHour, perDay, minDelay, maxDelay, newChat, identical, burst) ==
    [ maxPerMinute |-> perMinute, maxPerHour |-> perHour, maxPerDay |-> perDay,
      minDelayMs |-> minDelay, maxDelayMs |-> maxDelay, newChatDelayMs |-> newChat,
      maxIdenticalMessages |-> identical, burstAllowance |-> burst ]

WUConfig(days, day1, num, den, hours) ==
    [ warmUpDays |-> days, day1Limit |-> day1, growthNum |-> num, growthDen |-> den,
      inactivityThresholdHours |-> hours ]

HMConfig(warning, critical, failed, pauseAt) ==
    [ disconnectWarningThreshold |-> warning, disconnectCriticalThreshold |-> critical,
      failedMessageThreshold |-> failed, autoPauseAt |-> pauseAt ]

\* The orchestrator's configurations: limits small enough for every check of
\* beforeSend to trigger within the bounds.
Configs ==
    { [ rateLimiter |-> RLConfig(1, 3, 3, 1000, 1000, 0, 1, 1),
        warmUp |-> WUConfig(1, 2, 2, 1, 24),
        health |-> HMConfig(1, 2, 1, pauseAt) ] : pauseAt \in {"high", "critical"} }

\* The limiter's configurations when it is driven alone: the limits in
\* several orders, zero limits, an odd minDelayMs above a minute,
\* minDelayMs > maxDelayMs.
LimiterConfigs ==
    { RLConfig(1, 2, 3, 1000, 3000, 2000, 2, 1),
      RLConfig(2, 3, 3, 90001, 120000, 3000, 1, 2),
      RLConfig(3, 2, 2, 200, 100, 0, 3, 0),
      RLConfig(2, 0, 3, 0, 0, 1, 2, 1),
      RLConfig(0, 3, 3, 1000, 3000, 2000, 0, 1),
      RLConfig(1, 1, 0, 1000, 3000, 2000, 2, 1) }

\* The monitor's configurations when it is driven alone.
MonitorConfigs ==
    { HMConfig(1, 2, 1, pauseAt) : pauseAt \in {"low", "medium", "high", "critical"} }
    \cup { HMConfig(2, 2, 0, "high"), HMConfig(3, 5, 5, "high") }

\* Disconnect reasons after String(reason), and send errors.
Reasons == {"403", "401", "408", "loggedOut"}
Errors == {"timeout"}

\* The inputs of the orchestrator's run.
SendRecipients == {"r1"}
SendContents == {<<>>, <<65, 97>>}
SendReasons == {"403", "401"}

Steps == {HourMs, DayMs}
LimiterSteps == {MinuteMs, HourMs, DayMs}
MonitorSteps == {MinuteMs, HourMs, SixHoursMs}

NoCall(op) == [ op |-> op, args |-> <<>>, value |-> "undefined", calls |-> <<>>,
                limiterReturned |-> <<>>, notified |-> <<>>, callbacks |-> <<>> ]

----------------------------------------------------------------------------
(* The orchestrator driven through its public methods *)

Budget(max) == ops < max /\ ops' = ops + 1

Init ==
    /\ now = StartClock
    /\ ops = 0
    /\ config \in Configs
    /\ rateLimiter = NewRateLimiter
    /\ warmUp = WU_freshState(StartClock)
    /\ health = NewHealthMonitor(StartClock)
    /\ stats = NewStats
    /\ ret = NoCall("new")
    /\ lastNotified = "none"
    /\ objects = NoObjects
    /\ socket = NoSocket
    /\ queue = NoQueue

Tick ==
    \E d \in Steps :
        /\ Budget(MaxOps)
        /\ now' = now + d
        /\ ret' = NoCall("tick")
        /\ UNCHANGED <<config, rateLimiter, warmUp, health, stats, lastNotified, objects, socket, queue>>

BeforeSend ==
    \E recipient \in SendRecipients, content \in SendContents :
        /\ Budget(MaxOps)
        /\ \E o \in AB_beforeSend(health, warmUp, rateLimiter, stats, config, now,
                                   recipient, content) :
              /\ health' = o.health
              /\ warmUp' = o.warmUp
              /\ rateLimiter' = o.rateLimiter
              /\ stats' = o.stats
              /\ ret' = [NoCall("beforeSend") EXCEPT
                            !.args = <<recipient, content>>,
                            !.value = o.decision,
                            !.calls = o.calls,
                            !.limiterReturned = o.limiterReturned]
        /\ UNCHANGED <<now, config, lastNotified, objects, socket, queue>>

AfterSend ==
    \E recipient \in SendRecipients, content \in SendContents :
        /\ Budget(MaxOps)
        /\ rateLimiter' = RL_record(rateLimiter, now, recipient, content)
        /\ warmUp' = WU_record(warmUp, now)
        /\ stats' = [stats EXCEPT !.messagesAllowed = @ + 1]
        /\ ret' = [NoCall("afterSend") EXCEPT
                      !.args = <<recipient, content>>,
                      !.calls = <<"rateLimiter.record", "warmUp.record">>]
        /\ UNCHANGED <<now, config, health, lastNotified, objects, socket, queue>>

\* What a monitor call that may notify does to health, ret and lastNotified.
Notifying(op, arg, r) ==
    LET user == AB_onRiskChange(r.notified)
    IN  /\ health' = r.health
        /\ ret' = [NoCall(op) EXCEPT
                      !.args = <<arg>>,
                      !.notified = [i \in 1..Len(r.notified) |-> r.notified[i].risk],
                      !.callbacks = [i \in 1..Len(user) |-> user[i].risk]]
        /\ lastNotified' = IF Len(user) > 0 THEN user[Len(user)].risk ELSE lastNotified

AfterSendFailed_countsBlocked ==
    \E error \in Errors :
        /\ Budget(MaxOps)
        /\ Notifying("afterSendFailed", error,
                     HM_recordMessageFailed(health, config.health, now, error))
        /\ stats' = [stats EXCEPT !.messagesBlocked = @ + 1]
        /\ UNCHANGED <<now, config, rateLimiter, warmUp, objects, socket, queue>>

AfterSendFailed ==
    \E error \in Errors :
        /\ Budget(MaxOps)
        /\ Notifying("afterSendFailed", error,
                     HM_recordMessageFailed(health, config.health, now, error))
        /\ UNCHANGED <<now, config, rateLimiter, warmUp, stats, objects, socket, queue>>

OnDisconnect ==
    \E reason \in SendReasons :
        /\ Budget(MaxOps)
        /\ Notifying("onDisconnect", reason,
                     HM_recordDisconnect(health, config.health, now, reason))
        /\ UNCHANGED <<now, config, rateLimiter, warmUp, stats, objects, socket, queue>>

OnReconnect ==
    /\ Budget(MaxOps)
    /\ health' = HM_recordReconnect(health, now)
    /\ ret' = NoCall("onReconnect")
    /\ UNCHANGED <<now, config, rateLimiter, warmUp, stats, lastNotified, objects, socket, queue>>

GetStats ==
    LET h == HM_getStatus(health, config.health, now)
        w == WU_getStatus(warmUp, config.warmUp, now)
        l == RL_getStats(rateLimiter, config.rateLimiter, now)
    IN  /\ Budget(MaxOps)
        /\ health' = h.health
        /\ warmUp' = w.state
        /\ rateLimiter' = l.limiter
        /\ ret' = [NoCall("getStats") EXCEPT
                      !.value = [ messagesAllowed |-> stats.messagesAllowed,
                                  messagesBlocked |-> stats.messagesBlocked,
                                  totalDelayMs |-> stats.totalDelayMs,
                                  health |-> h.result, warmUp |-> w.result,
                                  rateLimiter |-> l.result ],
                      !.calls = <<"health.getStatus", "warmUp.getStatus",
                                  "rateLimiter.getStats">>]
        /\ UNCHANGED <<now, config, stats, lastNotified, objects, socket, queue>>

Pause ==
    /\ Budget(MaxOps)
    /\ health' = AB_pause(health)
    /\ ret' = NoCall("pause")
    /\ UNCHANGED <<now, config, rateLimiter, warmUp, stats, lastNotified, objects, socket, queue>>

Resume ==
    /\ Budget(MaxOps)
    /\ health' = AB_resume(health)
    /\ ret' = NoCall("resume")
    /\ UNCHANGED <<now, config, rateLimiter, warmUp, stats, lastNotified, objects, socket, queue>>

Reset ==
    LET o == AB_reset(health, warmUp, rateLimiter, stats, now)
    IN  /\ Budget(MaxOps)
        /\ health' = o.health
        /\ warmUp' = o.warmUp
        /\ rateLimiter' = o.rateLimiter
        /\ stats' = o.stats
        /\ ret' = NoCall("reset")
        /\ lastNotified' = "none"
        /\ UNCHANGED <<now, config, objects, socket, queue>>

Next ==
    \/ Tick
    \/ BeforeSend
    \/ AfterSend
    \/ AfterSendFailed
    \/ OnDisconnect
    \/ OnReconnect
    \/ GetStats
    \/ Pause
    \/ Resume
    \/ Reset

Spec == Init /\ [][Next]_vars

----------------------------------------------------------------------------
(* The RateLimiter driven alone through its public methods *)

InitLimiter ==
    /\ now = StartClock
    /\ ops = 0
    /\ config \in { [ rateLimiter |-> c,
                       warmUp |-> WUConfig(1, 2, 2, 1, 24),
                       health |-> HMConfig(1, 2, 1, "high") ] : c \in LimiterConfigs }
    /\ rateLimiter = NewRateLimiter
    /\ warmUp = WU_freshState(StartClock)
    /\ health = NewHealthMonitor(StartClock)
    /\ stats = NewStats
    /\ ret = NoCall("new")
    /\ lastNotified = "none"
    /\ objects = NoObjects
    /\ socket = NoSocket
    /\ queue = NoQueue

LimiterTick ==
    \E d \in LimiterSteps :
        /\ Budget(MaxLimiterOps)
        /\ now' = now + d
        /\ ret' = NoCall("tick")
        /\ UNCHANGED <<config, rateLimiter, warmUp, health, stats, lastNotified, objects, socket, queue>>

GetDelay ==
    \E recipient \in Recipients, content \in Contents :
        /\ Budget(MaxLimiterOps)
        /\ \E g \in RL_getDelay(rateLimiter, config.rateLimiter, now, recipient, content) :
              /\ rateLimiter' = g.limiter
              /\ ret' = [NoCall("rateLimiter.getDelay") EXCEPT
                            !.args = <<recipient, content>>,
                            !.value = g.result]
        /\ UNCHANGED <<now, config, warmUp, health, stats, lastNotified, objects, socket, queue>>

Record ==
    \E recipient \in Recipients, content \in Contents :
        /\ Budget(MaxLimiterOps)
        /\ rateLimiter' = RL_record(rateLimiter, now, recipient, content)
        /\ ret' = [NoCall("rateLimiter.record") EXCEPT !.args = <<recipient, content>>]
        /\ UNCHANGED <<now, config, warmUp, health, stats, lastNotified, objects, socket, queue>>

LimiterGetStats ==
    LET l == RL_getStats(rateLimiter, config.rateLimiter, now)
    IN  /\ Budget(MaxLimiterOps)
        /\ rateLimiter' = l.limiter
        /\ ret' = [NoCall("rateLimiter.getStats") EXCEPT !.value = l.result]
        /\ UNCHANGED <<now, config, warmUp, health, stats, lastNotified, objects, socket, queue>>

NextLimiter ==
    \/ LimiterTick
    \/ GetDelay
    \/ Record
    \/ LimiterGetStats

SpecLimiter == InitLimiter /\ [][NextLimiter]_vars

----------------------------------------------------------------------------
(* The HealthMonitor driven alone through its public methods; onRiskChange *)
(* is the user's callback itself.                                          *)

InitMonitor ==
    /\ now = StartClock
    /\ ops = 0
    /\ config \in { [ rateLimiter |-> RLConfig(1, 3, 3, 1000, 1000, 0, 1, 1),
                       warmUp |-> WUConfig(1, 2, 2, 1, 24),
                       health |-> c ] : c \in MonitorConfigs }
    /\ rateLimiter = NewRateLimiter
    /\ warmUp = WU_freshState(StartClock)
    /\ health = NewHealthMonitor(StartClock)
    /\ stats = NewStats
    /\ ret = NoCall("new")
    /\ lastNotified = "none"
    /\ objects = NoObjects
    /\ socket = NoSocket
    /\ queue = NoQueue

MonitorTick ==
    \E d \in MonitorSteps :
        /\ Budget(MaxMonitorOps)
        /\ now' = now + d
        /\ ret' = NoCall("tick")
        /\ UNCHANGED <<config, rateLimiter, warmUp, health, stats, lastNotified, objects, socket, queue>>

MonitorNotifying(op, arg, r) ==
    /\ health' = r.health
    /\ ret' = [NoCall(op) EXCEPT
                  !.args = <<arg>>,
                  !.notified = [i \in 1..Len(r.notified) |-> r.notified[i].risk],
                  !.callbacks = [i \in 1..Len(r.notified) |-> r.notified[i].risk]]
    /\ lastNotified' = IF Len(r.notified) > 0 THEN r.notified[Len(r.notified)].risk
                       ELSE lastNotified

RecordDisconnect ==
    \E reason \in Reasons :
        /\ Budget(MaxMonitorOps)
        /\ MonitorNotifying("health.recordDisconnect", reason,
                            HM_recordDisconnect(health, config.health, now, reason))
        /\ UNCHANGED <<now, config, rateLimiter, warmUp, stats, objects, socket, queue>>

RecordMessageFailed ==
    \E error \in Errors :
        /\ Budget(MaxMonitorOps)
        /\ MonitorNotifying("health.recordMessageFailed", error,
                            HM_recordMessageFailed(health, config.health, now, error))
        /\ UNCHANGED <<now, config, rateLimiter, warmUp, stats, objects, socket, queue>>

RecordReconnect ==
    /\ Budget(MaxMonitorOps)
    /\ health' = HM_recordReconnect(health, now)
    /\ ret' = NoCall("health.recordReconnect")
    /\ UNCHANGED <<now, config, rateLimiter, warmUp, stats, lastNotified, objects, socket, queue>>

GetStatus ==
    LET s == HM_getStatus(health, config.health, now)
    IN  /\ Budget(MaxMonitorOps)
        /\ health' = s.health
        /\ ret' = [NoCall("health.getStatus") EXCEPT !.value = s.result]
        /\ UNCHANGED <<now, config, rateLimiter, warmUp, stats, lastNotified, objects, socket, queue>>

IsPaused ==
    LET p == HM_isPaused(health, config.health, now)
    IN  /\ Budget(MaxMonitorOps)
        /\ health' = p.health
        /\ ret' = [NoCall("health.isPaused") EXCEPT !.value = p.result]
        /\ UNCHANGED <<now, config, rateLimiter, warmUp, stats, lastNotified, objects, socket, queue>>

SetPaused ==
    \E paused \in BOOLEAN :
        /\ Budget(MaxMonitorOps)
        /\ health' = HM_setPaused(health, paused)
        /\ ret' = [NoCall("health.setPaused") EXCEPT !.args = <<paused>>]
        /\ UNCHANGED <<now, config, rateLimiter, warmUp, stats, lastNotified, objects, socket, queue>>

MonitorReset ==
    /\ Budget(MaxMonitorOps)
    /\ health' = HM_reset(health, now)
    /\ ret' = NoCall("health.reset")
    /\ lastNotified' = "none"
    /\ UNCHANGED <<now, config, rateLimiter, warmUp, stats, objects, socket, queue>>

NextMonitor ==
    \/ MonitorTick
    \/ RecordDisconnect
    \/ RecordMessageFailed
    \/ RecordReconnect
    \/ GetStatus
    \/ IsPaused
    \/ SetPaused
    \/ MonitorReset

SpecMonitor == InitMonitor /\ [][NextMonitor]_vars

----------------------------------------------------------------------------
(* The RateLimiter driven alone with clock advances below a minute *)

ThrottleConfigs ==
    { RLConfig(1, 3, 3, 1000, 5000, 0, 2, 1),
      RLConfig(2, 3, 3, 1000, 2000, 500, 3, 0),
      RLConfig(3, 2, 3, 1000, 2000, 500, 3, 1) }

ThrottleSteps == {1000, 59000, MinuteMs}

InitThrottle ==
    /\ now = StartClock
    /\ ops = 0
    /\ config \in { [ rateLimiter |-> c,
                       warmUp |-> WUConfig(1, 2, 2, 1, 24),
                       health |-> HMConfig(1, 2, 1, "high") ] : c \in ThrottleConfigs }
    /\ rateLimiter = NewRateLimiter
    /\ warmUp = WU_freshState(StartClock)
    /\ health = NewHealthMonitor(StartClock)
    /\ stats = NewStats
    /\ ret = NoCall("new")
    /\ lastNotified = "none"
    /\ objects = NoObjects
    /\ socket = NoSocket
    /\ queue = NoQueue

ThrottleTick ==
    \E d \in ThrottleSteps :
        /\ Budget(MaxLimiterOps)
        /\ now' = now + d
        /\ ret' = NoCall("tick")
        /\ UNCHANGED <<config, rateLimiter, warmUp, health, stats, lastNotified, objects, socket, queue>>

NextThrottle ==
    \/ ThrottleTick
    \/ GetDelay
    \/ Record
    \/ LimiterGetStats

SpecThrottle == InitThrottle /\ [][NextThrottle]_vars

----------------------------------------------------------------------------
(* The WarmUp ramp driven alone through its public methods *)

\* The defaults (7 days, 20, growth 1.8 = 9/5, 72 hours); a one-day ramp; a
\* ramp of zero days; a growth of 1.5, whose day-1 limit is a rounded half.
RampConfigs ==
    { WUConfig(7, 20, 9, 5, 72),
      WUConfig(1, 2, 2, 1, 12),
      WUConfig(0, 5, 2, 1, 24),
      WUConfig(2, 1, 3, 2, 24) }

RampSteps == {HourMs, DayMs, 3 * DayMs}

InitRamp ==
    /\ now = StartClock
    /\ ops = 0
    /\ config \in { [ rateLimiter |-> RLConfig(1, 3, 3, 1000, 1000, 0, 1, 1),
                       warmUp |-> c,
                       health |-> HMConfig(1, 2, 1, "high") ] : c \in RampConfigs }
    /\ rateLimiter = NewRateLimiter
    /\ warmUp = WU_freshState(StartClock)
    /\ health = NewHealthMonitor(StartClock)
    /\ stats = NewStats
    /\ ret = NoCall("new")
    /\ lastNotified = "none"
    /\ objects = NoObjects
    /\ socket = NoSocket
    /\ queue = NoQueue

RampTick ==
    \E d \in RampSteps :
        /\ Budget(MaxRampOps)
        /\ now' = now + d
        /\ ret' = NoCall("tick")
        /\ UNCHANGED <<config, rateLimiter, warmUp, health, stats, lastNotified, objects, socket, queue>>

CanSend ==
    LET c == WU_canSend(warmUp, config.warmUp, now)
    IN  /\ Budget(MaxRampOps)
        /\ warmUp' = c.state
        /\ ret' = [NoCall("warmUp.canSend") EXCEPT
                      !.value = c.result,
                      !.calls = IF WU_checkInactivity(warmUp, config.warmUp, now) # warmUp
                                THEN <<"warmUp.checkInactivity", "warmUp.freshState">>
                                ELSE <<"warmUp.checkInactivity">>]
        /\ UNCHANGED <<now, config, rateLimiter, health, stats, lastNotified, objects, socket, queue>>

RampRecord ==
    /\ Budget(MaxRampOps)
    /\ warmUp' = WU_record(warmUp, now)
    /\ ret' = NoCall("warmUp.record")
    /\ UNCHANGED <<now, config, rateLimiter, health, stats, lastNotified, objects, socket, queue>>

GetDailyLimit ==
    LET l == WU_getDailyLimit(warmUp, config.warmUp, now)
    IN  /\ Budget(MaxRampOps)
        /\ warmUp' = l.state
        /\ ret' = [NoCall("warmUp.getDailyLimit") EXCEPT
                      !.value = [infinite |-> l.infinite, limit |-> l.limit]]
        /\ UNCHANGED <<now, config, rateLimiter, health, stats, lastNotified, objects, socket, queue>>

RampGetStatus ==
    LET s == WU_getStatus(warmUp, config.warmUp, now)
    IN  /\ Budget(MaxRampOps)
        /\ warmUp' = s.state
        /\ ret' = [NoCall("warmUp.getStatus") EXCEPT !.value = s.result]
        /\ UNCHANGED <<now, config, rateLimiter, health, stats, lastNotified, objects, socket, queue>>

ExportState ==
    /\ Budget(MaxRampOps)
    /\ ret' = [NoCall("warmUp.exportState") EXCEPT !.value = WU_exportState(warmUp)]
    /\ UNCHANGED <<now, config, rateLimiter, warmUp, health, stats, lastNotified, objects, socket, queue>>

RampReset ==
    /\ Budget(MaxRampOps)
    /\ warmUp' = WU_reset(warmUp, now)
    /\ ret' = NoCall("warmUp.reset")
    /\ UNCHANGED <<now, config, rateLimiter, health, stats, lastNotified, objects, socket, queue>>

NextRamp ==
    \/ RampTick
    \/ CanSend
    \/ RampRecord
    \/ GetDailyLimit
    \/ RampGetStatus
    \/ ExportState
    \/ RampReset

SpecRamp == InitRamp /\ [][NextRamp]_vars

----------------------------------------------------------------------------
(* Two WarmUp instances and the snapshot object exportState() returned,     *)
(* driven through the constructor and the public methods                    *)

Instances == {"a", "b"}

SnapshotConfigs == { WUConfig(1, 2, 2, 1, 12), WUConfig(2, 1, 3, 2, 24) }

SnapshotSteps == {DayMs}

InitSnapshot ==
    /\ now = StartClock
    /\ ops = 0
    /\ config \in { [ rateLimiter |-> RLConfig(1, 3, 3, 1000, 1000, 0, 1, 1),
                       warmUp |-> c,
                       health |-> HMConfig(1, 2, 1, "high") ] : c \in SnapshotConfigs }
    /\ rateLimiter = NewRateLimiter
    /\ warmUp = WU_freshState(StartClock)
    /\ health = NewHealthMonitor(StartClock)
    /\ stats = NewStats
    /\ ret = NoCall("new")
    /\ lastNotified = "none"
    /\ objects = Inst_new(NoObjects, "a", 0, StartClock)
    /\ socket = NoSocket
    /\ queue = NoQueue

Unshared == <<now, config, rateLimiter, warmUp, health, stats, lastNotified,
              socket, queue>>

SnapshotTick ==
    \E d \in SnapshotSteps :
        /\ Budget(MaxSnapshotOps)
        /\ now' = now + d
        /\ ret' = NoCall("tick")
        /\ UNCHANGED <<config, rateLimiter, warmUp, health, stats, lastNotified, objects, socket, queue>>

SnapshotNew ==
    \E i \in Instances, existingState \in {0, objects.snapshot} :
        /\ Budget(MaxSnapshotOps)
        /\ objects' = Inst_new(objects, i, existingState, now)
        /\ ret' = [NoCall("new WarmUp") EXCEPT !.args = <<i, existingState>>]
        /\ UNCHANGED Unshared

SnapshotCanSend ==
    \E i \in Instances :
        /\ objects.ramps[i] # 0
        /\ Budget(MaxSnapshotOps)
        /\ LET c == Inst_canSend(objects, i, config.warmUp, now)
           IN  /\ objects' = c.objects
               /\ ret' = [NoCall("warmUp.canSend") EXCEPT !.args = <<i>>, !.value = c.result]
        /\ UNCHANGED Unshared

SnapshotRecord ==
    \E i \in Instances :
        /\ objects.ramps[i] # 0
        /\ Budget(MaxSnapshotOps)
        /\ objects' = Inst_record(objects, i, now)
        /\ ret' = [NoCall("warmUp.record") EXCEPT !.args = <<i>>]
        /\ UNCHANGED Unshared

SnapshotGetDailyLimit ==
    \E i \in Instances :
        /\ objects.ramps[i] # 0
        /\ Budget(MaxSnapshotOps)
        /\ LET l == Inst_getDailyLimit(objects, i, config.warmUp, now)
           IN  /\ objects' = l.objects
               /\ ret' = [NoCall("warmUp.getDailyLimit") EXCEPT
                             !.args = <<i>>, !.value = l.result]
        /\ UNCHANGED Unshared

SnapshotGetStatus ==
    \E i \in Instances :
        /\ objects.ramps[i] # 0
        /\ Budget(MaxSnapshotOps)
        /\ LET s == Inst_getStatus(objects, i, config.warmUp, now)
           IN  /\ objects' = s.objects
               /\ ret' = [NoCall("warmUp.getStatus") EXCEPT !.args = <<i>>, !.value = s.result]
        /\ UNCHANGED Unshared

SnapshotExportState ==
    \E i \in Instances :
        /\ objects.ramps[i] # 0
        /\ Budget(MaxSnapshotOps)
        /\ objects' = Inst_exportState(objects, i)
        /\ ret' = [NoCall("warmUp.exportState") EXCEPT !.args = <<i>>]
        /\ UNCHANGED Unshared

SnapshotReset ==
    \E i \in Instances :
        /\ objects.ramps[i] # 0
        /\ Budget(MaxSnapshotOps)
        /\ objects' = Inst_reset(objects, i, now)
        /\ ret' = [NoCall("warmUp.reset") EXCEPT !.args = <<i>>]
        /\ UNCHANGED Unshared

NextSnapshot ==
    \/ SnapshotTick
    \/ SnapshotNew
    \/ SnapshotCanSend
    \/ SnapshotRecord
    \/ SnapshotGetDailyLimit
    \/ SnapshotGetStatus
    \/ SnapshotExportState
    \/ SnapshotReset

SpecSnapshot == InitSnapshot /\ [][NextSnapshot]_vars

----------------------------------------------------------------------------
(* The claims.  What a claim says about counts, scores and levels is        *)
(* written here from the claim's words, over the stored records and events. *)

Range(seq) == { seq[i] : i \in 1..Len(seq) }

\* Records of the limiter younger than `window` at the clock.
ClaimCount(window) ==
    Cardinality({ i \in 1..Len(rateLimiter.messages) :
                    now - rateLimiter.messages[i].timestamp < window })

\* The identical-message counter of a text as the call reads it: counted
\* since the last full cleanup, which the call itself performs when no record
\* younger than 24h is left.
ClaimIdentical(content) ==
    IF ClaimCount(DayMs) = 0 THEN 0
    ELSE IdenticalGet(rateLimiter, hashContent(content))

\* Events of one type in the trailing hour.
ClaimEvents(type) ==
    Cardinality({ i \in 1..Len(health.events) :
                    /\ health.events[i].type = type
                    /\ now - health.events[i].timestamp < HourMs })

ClaimScore ==
    LET F == ClaimEvents("forbidden")
        L == ClaimEvents("loggedOut")
        D == ClaimEvents("disconnect")
        M == ClaimEvents("messageFailed")
        sum == 40 * F
               + (IF L > 0 THEN 60 ELSE 0)
               + (IF D >= config.health.disconnectCriticalThreshold THEN 30
                  ELSE IF D >= config.health.disconnectWarningThreshold THEN 15
                  ELSE 0)
               + (IF M >= config.health.failedMessageThreshold THEN 20 ELSE 0)
    IN  IF sum > 100 THEN 100 ELSE sum

ClaimLevel ==
    IF ClaimScore >= 85 THEN "critical"
    ELSE IF ClaimScore >= 60 THEN "high"
    ELSE IF ClaimScore >= 30 THEN "medium"
    ELSE "low"

\* low < medium < high < critical
Rank(level) ==
    CASE level = "low" -> 0
      [] level = "medium" -> 1
      [] level = "high" -> 2
      [] level = "critical" -> 3

\* The values getDelay(recipient, content) can return from limiter L at clock t.
DelayResults(L, t, recipient, content) ==
    { g.result : g \in RL_getDelay(L, config.rateLimiter, t, recipient, content) }

\* The decisions beforeSend can return, per text, from the given fields at the
\* clock with the manual pause flag cleared.
UnpausedDecisions(H, W, L) ==
    UNION { { <<a[1], a[2], o.decision>> :
                o \in AB_beforeSend([H EXCEPT !.paused = FALSE], W, L, NewStats, config,
                                    now, a[1], a[2]) } :
            a \in SendRecipients \X SendContents }

(* C1: beforeSend decides by the first matching check in the order          *)
(* isPaused() -> blocked by health; else !canSend() -> blocked by warm-up;  *)
(* else getDelay = BLOCK -> blocked by rate/duplicate; else allowed.  When  *)
(* an earlier check blocks, the later components are neither called nor     *)
(* changed.                                                                 *)
C1_FirstMatchingCheck ==
    [][ ret'.op = "beforeSend" =>
          LET d == ret'.value
              paused == HM_isPaused(health, config.health, now).result
              canSend == WU_canSend(warmUp, config.warmUp, now).result
          IN  IF paused
              THEN /\ ~d.allowed
                   /\ d.reason = "Health risk"
                   /\ ret'.calls = <<"health.getStatus", "health.isPaused">>
                   /\ ret'.limiterReturned = <<>>
                   /\ warmUp' = warmUp
                   /\ rateLimiter' = rateLimiter
              ELSE IF ~canSend
                   THEN /\ ~d.allowed
                        /\ d.reason = "Warm-up limit"
                        /\ "rateLimiter.getDelay" \notin Range(ret'.calls)
                        /\ ret'.limiterReturned = <<>>
                        /\ rateLimiter' = rateLimiter
                   ELSE /\ Len(ret'.limiterReturned) = 1
                        /\ "rateLimiter.getDelay" \in Range(ret'.calls)
                        /\ IF ret'.limiterReturned[1] = BLOCK
                           THEN /\ ~d.allowed
                                /\ d.reason = "Rate limit exceeded or identical message spam detected"
                           ELSE /\ d.allowed
                                /\ d.reason = "undefined" ]_vars

\* A beforeSend blocked by the monitor while the ramp, too, would have blocked.
C1_Witness ==
    /\ ret.op = "beforeSend"
    /\ ret.value.reason = "Health risk"
    /\ ~health.paused
    /\ ~WU_canSend(warmUp, config.warmUp, now).result

(* C2: after reset() the three sub-components and the aggregate counters    *)
(* are all in their freshly-constructed state: counters 0, the monitor with *)
(* no events and no manual pause, the ramp at day 0 with no counts and not  *)
(* graduated, the limiter with no records, no identical counts, no known    *)
(* recipients and burst counter 0.                                          *)
C2_ResetAllTogether ==
    ret.op = "reset" =>
        /\ stats = NewStats
        /\ health.events = <<>> /\ ~health.paused
        /\ warmUp = WU_freshState(now)
        /\ rateLimiter.messages = <<>>
        /\ rateLimiter.identicalCount = <<>>
        /\ rateLimiter.knownChats = {}
        /\ rateLimiter.burstCount = 0

(* C3: getDelay leaves no residue: after a getDelay call, the set of values *)
(* any getDelay(r, c) can return at that clock is what it was before it.    *)
C3_GetDelayLeavesNoResidue ==
    [][ ret'.op = "rateLimiter.getDelay" =>
          \A recipient \in Recipients, content \in Contents :
              DelayResults(rateLimiter', now, recipient, content)
                  = DelayResults(rateLimiter, now, recipient, content) ]_vars

(* C4: in every state isPaused() is true exactly when the manual pause flag *)
(* is set or the level computed from the events of the trailing hour is at  *)
(* or above autoPauseAt (low < medium < high < critical).                   *)
C4_PausedIffManualOrAtThreshold ==
    HM_isPaused(health, config.health, now).result
        = (health.paused \/ Rank(ClaimLevel) >= Rank(config.health.autoPauseAt))

\* setPaused(false) was just called while the level is at or above
\* autoPauseAt, and isPaused() is true.
C4_Witness ==
    /\ ret.op = "health.setPaused"
    /\ ret.args = <<FALSE>>
    /\ config.health.autoPauseAt # "low"
    /\ Rank(ClaimLevel) >= Rank(config.health.autoPauseAt)
    /\ HM_isPaused(health, config.health, now).result

(* C5: getStatus().score = min(100, 40*F + (60 if L>0) + (30 if D >=        *)
(* critical threshold, else 15 if D >= warning threshold) + (20 if M >=     *)
(* failed threshold)) over the events of the trailing hour; 0 <= score <=   *)
(* 100; level critical iff score >= 85, high iff 60..84, medium iff 30..59, *)
(* low otherwise.  Reconnect events do not enter the score.                 *)
C5_ScoreAndLevel ==
    LET s == HM_getStatus(health, config.health, now).result
    IN  /\ s.score = ClaimScore
        /\ 0 <= s.score /\ s.score <= 100
        /\ (s.risk = "critical") = (s.score >= 85)
        /\ (s.risk = "high") = (60 <= s.score /\ s.score < 85)
        /\ (s.risk = "medium") = (30 <= s.score /\ s.score < 60)
        /\ (s.risk = "low") = (s.score < 30)

\* The signals add up to more than 100 and the score reported is 100, with a
\* reconnect event in the log.
C5_Witness ==
    /\ 40 * ClaimEvents("forbidden") + (IF ClaimEvents("loggedOut") > 0 THEN 60 ELSE 0) > 100
    /\ ClaimEvents("reconnect") > 0
    /\ HM_getStatus(health, config.health, now).result.score = 100

(* C6: the user's onRiskChange runs only inside onDisconnect               *)
(* (recordDisconnect) or afterSendFailed (recordMessageFailed), at most    *)
(* once per call and exactly once per notification of the monitor, with    *)
(* the level computed in that call, and only when that level differs from  *)
(* the last reported one; so it never carries the level of the previous    *)
(* invocation since the last reset().                                      *)
C6_NotifyOncePerTransition ==
    [][ /\ Len(ret'.callbacks) <= 1
        /\ ret'.callbacks = ret'.notified
        /\ Len(ret'.callbacks) = 1 =>
              /\ ret'.op \in {"onDisconnect", "afterSendFailed"}
              /\ ret'.callbacks[1] = HM_getStatus(health', config.health, now').result.risk
              /\ ret'.callbacks[1] # health.lastRisk
              /\ ret'.callbacks[1] # lastNotified ]_vars

\* A notification of "low": the level had been reported higher, decayed, and
\* the next recorded event reports the drop.
C6_Witness ==
    /\ ret.op \in {"onDisconnect", "afterSendFailed"}
    /\ ret.callbacks = <<"low">>

(* C7: while the manual pause flag set by pause() stands (until resume()   *)
(* or reset()), every beforeSend returns allowed=false with delayMs=0;     *)
(* resume() clears the flag; and neither pause(), resume() nor a           *)
(* beforeSend made under the pause changes what beforeSend decides without *)
(* the flag, so after resume() the decision is the one that would have     *)
(* been returned had pause() never been called.                            *)
C7_PauseBlocksResumeRestores ==
    [][ /\ ret'.op = "pause" => health'.paused
        /\ (health.paused /\ ret'.op \notin {"resume", "reset"}) => health'.paused
        /\ (health.paused /\ ret'.op = "beforeSend") =>
              /\ ~ret'.value.allowed
              /\ ret'.value.delayMs = 0
        /\ ret'.op = "resume" => ~health'.paused
        /\ (ret'.op \in {"pause", "resume"} \/ (health.paused /\ ret'.op = "beforeSend")) =>
              UnpausedDecisions(health', warmUp', rateLimiter')
                  = UnpausedDecisions(health, warmUp, rateLimiter) ]_vars

\* An allowed beforeSend at the first clock value after exactly one blocked
\* one, with no event, no record and no reset: the block was the manual
\* pause, lifted by resume().
C7_Witness ==
    /\ ret.op = "beforeSend"
    /\ ret.value.allowed
    /\ stats.messagesBlocked = 1
    /\ now = StartClock
    /\ health.events = <<>>
    /\ rateLimiter.messages = <<>>

(* C8: every Decision of beforeSend has allowed=false iff a reason is      *)
(* present; allowed=false implies delayMs=0; allowed=true implies          *)
(* delayMs >= 0 and delayMs is the value getDelay returned for that call.  *)
C8_DecisionShape ==
    ret.op = "beforeSend" =>
        LET d == ret.value
        IN  /\ (~d.allowed) = (d.reason # "undefined")
            /\ ~d.allowed => d.delayMs = 0
            /\ d.allowed => /\ d.delayMs >= 0
                            /\ ret.limiterReturned = <<d.delayMs>>

\* An allowed decision whose delay is the per-minute throttle's.
C8_Witness ==
    /\ ret.op = "beforeSend"
    /\ ret.value.allowed
    /\ ClaimCount(MinuteMs) >= config.rateLimiter.maxPerMinute
    /\ ret.value.delayMs = MinuteMs

(* C9: at every clock value and for every recipient and text, getDelay     *)
(* returns BLOCK iff the trailing-24h count is >= maxPerDay, or the        *)
(* trailing-1h count is < maxPerHour and the trailing-60s count is <       *)
(* maxPerMinute and the text's identical-message counter is >=             *)
(* maxIdenticalMessages; otherwise it returns a delay.                     *)
C9_BlockIff ==
    \A recipient \in Recipients, content \in Contents :
        \A result \in DelayResults(rateLimiter, now, recipient, content) :
            (result = BLOCK)
                = \/ ClaimCount(DayMs) >= config.rateLimiter.maxPerDay
                  \/ /\ ClaimCount(HourMs) < config.rateLimiter.maxPerHour
                     /\ ClaimCount(MinuteMs) < config.rateLimiter.maxPerMinute
                     /\ ClaimIdentical(content) >= config.rateLimiter.maxIdenticalMessages

\* getDelay returned a delay for a text whose identical-message counter has
\* reached the limit, because a throttle check matched first.
C9_Witness ==
    /\ ret.op = "rateLimiter.getDelay"
    /\ ret.value >= 0
    /\ config.rateLimiter.maxIdenticalMessages > 0
    /\ ClaimIdentical(ret.args[2]) >= config.rateLimiter.maxIdenticalMessages
    /\ ClaimCount(DayMs) < config.rateLimiter.maxPerDay

(* C10: with non-negative option values, in every state getDelay returns   *)
(* BLOCK (-1) or a value >= 0; when the hourly or the per-minute check     *)
(* throttles, the delay is >= 0, never the sentinel.                       *)
C10_DelayNonNegative ==
    \A recipient \in Recipients, content \in Contents :
        \A result \in DelayResults(rateLimiter, now, recipient, content) :
            /\ result = BLOCK \/ result >= 0
            /\ ( /\ ClaimCount(DayMs) < config.rateLimiter.maxPerDay
                 /\ \/ ClaimCount(HourMs) >= config.rateLimiter.maxPerHour
                    \/ ClaimCount(MinuteMs) >= config.rateLimiter.maxPerMinute )
                => result >= 0

\* getDelay returned the hourly throttle's delay when the oldest record of
\* the hour was already a minute old.
C10_Witness ==
    /\ ret.op = "rateLimiter.getDelay"
    /\ config.rateLimiter.maxPerHour > 0
    /\ ClaimCount(DayMs) < config.rateLimiter.maxPerDay
    /\ ClaimCount(HourMs) >= config.rateLimiter.maxPerHour
    /\ ret.value = HourMs - MinuteMs

\* The timestamp of the oldest record of the limiter younger than `window`.
ClaimOldest(window) ==
    LET ts == { rateLimiter.messages[i].timestamp : i \in
                  { j \in 1..Len(rateLimiter.messages) :
                      now - rateLimiter.messages[j].timestamp < window } }
    IN  CHOOSE x \in ts : \A y \in ts : x <= y

(* C11 as stated: whenever maxPerMinute sends have been recorded within the *)
(* trailing 60 seconds, the next getDelay returns a delay >= maxDelayMs.    *)
C11_ThrottledAboveCeiling ==
    \A recipient \in Recipients, content \in Contents :
        ClaimCount(MinuteMs) >= config.rateLimiter.maxPerMinute =>
            \A result \in DelayResults(rateLimiter, now, recipient, content) :
                result >= config.rateLimiter.maxDelayMs

(* C11 amended: whenever maxPerMinute >= 1 sends have been recorded within  *)
(* the trailing 60 seconds and neither the daily cap nor the hourly check   *)
(* matches first, the next getDelay returns the time until the oldest of    *)
(* them leaves the 60-second window, a value in 1..60000 whatever           *)
(* maxDelayMs is.                                                           *)
C11_ThrottleUntilWindowOpens ==
    \A recipient \in Recipients, content \in Contents :
        ( /\ config.rateLimiter.maxPerMinute >= 1
          /\ ClaimCount(MinuteMs) >= config.rateLimiter.maxPerMinute
          /\ ClaimCount(DayMs) < config.rateLimiter.maxPerDay
          /\ ClaimCount(HourMs) < config.rateLimiter.maxPerHour )
        => /\ DelayResults(rateLimiter, now, recipient, content)
                 = { (ClaimOldest(MinuteMs) + MinuteMs) - now }
           /\ (ClaimOldest(MinuteMs) + MinuteMs) - now \in 1..MinuteMs

\* getDelay throttled by the per-minute check returned less than maxDelayMs,
\* with two records of different ages in the window.
C11_Witness ==
    /\ ret.op = "rateLimiter.getDelay"
    /\ config.rateLimiter.maxPerMinute = 2
    /\ ClaimCount(MinuteMs) = 2
    /\ ClaimCount(HourMs) < config.rateLimiter.maxPerHour
    /\ rateLimiter.messages[1].timestamp < rateLimiter.messages[2].timestamp
    /\ ret.value > 0
    /\ ret.value < config.rateLimiter.maxDelayMs

\* Stored records of the limiter with the fingerprint of a text, and those
\* of them younger than 24h at the clock.
ClaimRecorded(content) ==
    Cardinality({ i \in 1..Len(rateLimiter.messages) :
                    rateLimiter.messages[i].contentHash = hashContent(content) })

ClaimRecordedInDay(content) ==
    Cardinality({ i \in 1..Len(rateLimiter.messages) :
                    /\ rateLimiter.messages[i].contentHash = hashContent(content)
                    /\ now - rateLimiter.messages[i].timestamp < DayMs })

ClaimDay == (now - warmUp.startedAt) \div DayMs

ClaimDayCount(W, day) ==
    IF day + 1 \in DOMAIN W.dailyCounts THEN W.dailyCounts[day + 1] ELSE 0

ClaimRound(n, d) ==
    CHOOSE k \in 0..((n \div d) + 1) : 2 * k * d - d <= 2 * n /\ 2 * n < 2 * k * d + d

ClaimLimit(day) ==
    ClaimRound(config.warmUp.day1Limit * Pow(config.warmUp.growthNum, day),
               Pow(config.warmUp.growthDen, day))

\* The days a run of the ramp can reach.
ClaimDays == 0..(3 * (MaxRampOps + 1))

(* C13: while the ramp is not graduated and the elapsed day d is below      *)
(* warmUpDays, canSend() is true exactly when the count stored for day d is *)
(* below the limit of day d; record() adds one to the count of the elapsed  *)
(* day and to no other; and once canSend() is false it stays false while    *)
(* the day index is the same (reset() aside).                               *)
C13_CanSendIffBelowTodaysLimit ==
    /\ [] ( (~warmUp.graduated /\ ClaimDay < config.warmUp.warmUpDays) =>
               WU_canSend(warmUp, config.warmUp, now).result
                   = (ClaimDayCount(warmUp, ClaimDay) < ClaimLimit(ClaimDay)) )
    /\ [][ /\ ret'.op = "warmUp.record" =>
                \A d \in ClaimDays :
                    ClaimDayCount(warmUp', d)
                        = ClaimDayCount(warmUp, d) + (IF d = ClaimDay THEN 1 ELSE 0)
           /\ ( /\ ~warmUp.graduated
                /\ ClaimDay < config.warmUp.warmUpDays
                /\ ~WU_canSend(warmUp, config.warmUp, now).result
                /\ ret'.op # "warmUp.reset"
                /\ ClaimDay' = ClaimDay )
              => ~WU_canSend(warmUp', config.warmUp, now').result ]_vars

\* canSend() returned false on day 1 at a limit that is a rounded half
\* (1 * 1.5 -> 2), with a count recorded on day 0 as well.
C13_Witness ==
    /\ ret.op = "warmUp.canSend"
    /\ ret.value = FALSE
    /\ ClaimDay = 1
    /\ ClaimDayCount(warmUp, 0) > 0
    /\ ClaimDayCount(warmUp, 1) = 2
    /\ ClaimLimit(1) = 2

\* The README's schedule for the defaults, days 1..7.
ClaimSchedule == <<20, 36, 65, 117, 210, 378, 680>>

(* C14: getDailyLimit() returns round(day1Limit * growthFactor^d) on        *)
(* elapsed day d < warmUpDays and unbounded on every d >= warmUpDays; with  *)
(* warmUpDays = 0 it is unbounded from the first call and canSend() is      *)
(* true; with the defaults (20, 1.8, 7) the limits of days 1..7 are 20, 36, *)
(* 65, 117, 210, 378, 680 and unbounded from day 8.                         *)
C14_DailyLimitSchedule ==
    LET l == WU_getDailyLimit(warmUp, config.warmUp, now)
    IN  /\ ClaimDay < config.warmUp.warmUpDays =>
              ~l.infinite /\ l.limit = ClaimLimit(ClaimDay)
        /\ ClaimDay >= config.warmUp.warmUpDays => l.infinite
        /\ config.warmUp.warmUpDays = 0 =>
              l.infinite /\ WU_canSend(warmUp, config.warmUp, now).result
        /\ config.warmUp = WUConfig(7, 20, 9, 5, 72) =>
              IF ClaimDay < 7
              THEN ~l.infinite /\ l.limit = ClaimSchedule[ClaimDay + 1]
              ELSE l.infinite

\* getDailyLimit() returned 680, the limit of the defaults' last day.
C14_Witness ==
    /\ ret.op = "warmUp.getDailyLimit"
    /\ ~ret.value.infinite
    /\ ret.value.limit = 680
    /\ ClaimDay = 6

(* C15: canSend() on a graduated ramp more than inactivityThresholdHours   *)
(* after the last activity answers from a fresh state (activation = now,   *)
(* no daily counts, not graduated): the answer and the following limit are *)
(* those of day 0 (a ramp of zero days graduates again in that same call); *)
(* on a graduated ramp with a gap of at most the threshold it returns true *)
(* and leaves the state unchanged.                                         *)
C15_InactivityRestartsRamp ==
    [][ (ret'.op = "warmUp.canSend" /\ warmUp.graduated) =>
          IF now - warmUp.lastActiveAt > config.warmUp.inactivityThresholdHours * HourMs
          THEN /\ warmUp'.startedAt = now
               /\ warmUp'.lastActiveAt = now
               /\ warmUp'.dailyCounts = <<>>
               /\ warmUp'.graduated = (config.warmUp.warmUpDays = 0)
               /\ ret'.value = (config.warmUp.warmUpDays = 0 \/ 0 < ClaimLimit(0))
               /\ LET l == WU_getDailyLimit(warmUp', config.warmUp, now')
                  IN  IF config.warmUp.warmUpDays = 0 THEN l.infinite
                      ELSE ~l.infinite /\ l.limit = ClaimLimit(0)
          ELSE /\ ret'.value = TRUE
               /\ warmUp' = warmUp ]_vars

\* canSend() replaced the state of a graduated, inactive ramp: the ramp is
\* back on day 0, warming.
C15_Witness ==
    /\ ret.op = "warmUp.canSend"
    /\ "warmUp.freshState" \in Range(ret.calls)
    /\ warmUp.startedAt = now
    /\ now > StartClock
    /\ ~warmUp.graduated
    /\ ret.value = TRUE

(* C16: graduated is monotonic: once true it stays true across record(),  *)
(* getDailyLimit(), getStatus(), exportState() and clock advances; it      *)
(* returns to false only in reset() or in a canSend() made more than       *)
(* inactivityThresholdHours after the last activity.                       *)
C16_GraduatedMonotonic ==
    [][ (warmUp.graduated /\ ~warmUp'.graduated) =>
          \/ ret'.op = "warmUp.reset"
          \/ /\ ret'.op = "warmUp.canSend"
             /\ now - warmUp.lastActiveAt > config.warmUp.inactivityThresholdHours * HourMs
      ]_vars

\* getStatus() was called on a graduated ramp inactive for more than the
\* threshold, and the ramp is still graduated.
C16_Witness ==
    /\ ret.op = "warmUp.getStatus"
    /\ ret.value.phase = "graduated"
    /\ warmUp.graduated
    /\ config.warmUp.warmUpDays > 0
    /\ now - warmUp.lastActiveAt > config.warmUp.inactivityThresholdHours * HourMs

\* What instance i of the objects O answers at the clock: canSend(),
\* getDailyLimit() and getStatus(), each asked of the same state.
ClaimAnswers(O, i) ==
    [ canSend |-> Inst_canSend(O, i, config.warmUp, now).result,
      dailyLimit |-> Inst_getDailyLimit(O, i, config.warmUp, now).result,
      status |-> Inst_getStatus(O, i, config.warmUp, now).result ]

(* C17: for every reachable state of an instance, an instance constructed  *)
(* with the same configuration from the snapshot exportState() returns     *)
(* gives, at the same clock value, the same canSend(), getDailyLimit() and *)
(* getStatus() results as the source; the same through the orchestrator's  *)
(* exportWarmUpState() and constructor.                                    *)
C17_ExportRestoreRoundTrip ==
    \A i \in Instances, j \in Instances :
        (objects.ramps[i] # 0 /\ j # i) =>
            /\ LET exported == Inst_exportState(objects, i)
                   restored == Inst_new(exported, j, exported.snapshot, now)
               IN  ClaimAnswers(restored, j) = ClaimAnswers(objects, i)
            /\ LET exported == AB_exportWarmUpState(objects, i)
                   restored == AB_new(exported, j, exported.snapshot, now)
               IN  ClaimAnswers(restored, j) = ClaimAnswers(objects, i)

\* Instance b was constructed from a snapshot of instance a, and both are
\* blocked by today's limit.
C17_Witness ==
    /\ ret.op = "new WarmUp"
    /\ ret.args = <<"b", objects.snapshot>>
    /\ objects.snapshot # 0
    /\ objects.ramps.a # objects.ramps.b
    /\ ~ClaimAnswers(objects, "a").canSend
    /\ ~ClaimAnswers(objects, "b").canSend
    /\ ClaimAnswers(objects, "b").status.todaySent > 0

(* C18: instances are independent: a call on one instance changes no       *)
(* answer of the other instance, nor the contents of the snapshot exported *)
(* earlier.                                                                *)
C18_InstancesIndependent ==
    [][ \A i \in Instances, j \in Instances :
          ( /\ j # i
            /\ ret'.op \in {"warmUp.canSend", "warmUp.record", "warmUp.getDailyLimit",
                             "warmUp.getStatus", "warmUp.exportState", "warmUp.reset"}
            /\ ret'.args[1] = i )
          => /\ objects.ramps[j] # 0 =>
                   /\ objects'.ramps[j] # 0
                   /\ ClaimAnswers(objects', j) = ClaimAnswers(objects, j)
             /\ (objects.snapshot # 0 /\ ret'.op # "warmUp.exportState") =>
                   Obj_read(objects', objects.snapshot) = Obj_read(objects, objects.snapshot)
      ]_vars

(* C19: the aggregate counters never decrease except by reset(): a        *)
(* beforeSend adds 1 to messagesBlocked when its decision is blocked, or   *)
(* delayMs to totalDelayMs when it is allowed, and changes no other        *)
(* counter; afterSend adds 1 to messagesAllowed and changes no other; no   *)
(* other call but reset() changes a counter.                                *)
C19_CountersFollowDecisions ==
    [][ /\ ret'.op = "beforeSend" =>
              IF ret'.value.allowed
              THEN stats' = [stats EXCEPT !.totalDelayMs = @ + ret'.value.delayMs]
              ELSE stats' = [stats EXCEPT !.messagesBlocked = @ + 1]
        /\ ret'.op = "afterSend" =>
              stats' = [stats EXCEPT !.messagesAllowed = @ + 1]
        /\ ret'.op \notin {"beforeSend", "afterSend", "reset"} => stats' = stats
        /\ ret'.op # "reset" =>
              /\ stats'.messagesAllowed >= stats.messagesAllowed
              /\ stats'.messagesBlocked >= stats.messagesBlocked
              /\ stats'.totalDelayMs >= stats.totalDelayMs ]_vars

\* Two afterSend calls made messagesAllowed 2 without any allowed decision,
\* and the beforeSend that followed was blocked by the ramp and counted.
C19_Witness ==
    /\ ret.op = "beforeSend"
    /\ ret.value.reason = "Warm-up limit"
    /\ stats.messagesAllowed = 2
    /\ stats.messagesBlocked = 1
    /\ stats.totalDelayMs = 0

(* C20: afterSendFailed, onDisconnect and onReconnect change only the      *)
(* monitor: the limiter, the ramp and the three counters are as before;    *)
(* afterSend leaves the monitor's event log, pause flag and last reported  *)
(* level as before.                                                        *)
C20_CallsTouchTheirComponentOnly ==
    [][ /\ ret'.op \in {"afterSendFailed", "onDisconnect", "onReconnect"} =>
              /\ rateLimiter' = rateLimiter
              /\ warmUp' = warmUp
              /\ stats' = stats
              /\ health'.events # health.events
        /\ ret'.op = "afterSend" =>
              /\ health'.events = health.events
              /\ health'.paused = health.paused
              /\ health'.lastRisk = health.lastRisk ]_vars

\* onDisconnect was called after a send had been recorded: the limiter, the
\* ramp and the counters still hold that send.
C20_Witness ==
    /\ ret.op = "onDisconnect"
    /\ Len(rateLimiter.messages) = 1
    /\ warmUp.dailyCounts = <<1>>
    /\ stats.messagesAllowed = 1
    /\ Len(health.events) = 1

\* What the ramp answers from state W at the current clock value: canSend(),
\* then getDailyLimit().
ClaimRampAnswers(W) ==
    LET c == WU_canSend(W, config.warmUp, now)
        l == WU_getDailyLimit(c.state, config.warmUp, now)
    IN  [ canSend |-> c.result, infinite |-> l.infinite, limit |-> l.limit ]

(* C21: the monitor's getStatus() and the ramp's getStatus() are pure       *)
(* reads: a second call at the same clock value returns the same result,   *)
(* and the answers of a later canSend(), getDailyLimit() and isPaused()    *)
(* are the same whether or not the read was made.                          *)
C21_StatusReadsArePure ==
    LET w == WU_getStatus(warmUp, config.warmUp, now)
        h == HM_getStatus(health, config.health, now)
    IN  /\ WU_getStatus(w.state, config.warmUp, now).result = w.result
        /\ HM_getStatus(h.health, config.health, now).result = h.result
        /\ HM_isPaused(h.health, config.health, now).result
              = HM_isPaused(health, config.health, now).result
        /\ ClaimRampAnswers(w.state) = ClaimRampAnswers(warmUp)

\* No check of getDelay blocks or throttles the text at the clock.
ClaimUnthrottled(content) ==
    /\ ClaimCount(DayMs) < config.rateLimiter.maxPerDay
    /\ ClaimCount(HourMs) < config.rateLimiter.maxPerHour
    /\ ClaimCount(MinuteMs) < config.rateLimiter.maxPerMinute
    /\ ClaimIdentical(content) < config.rateLimiter.maxIdenticalMessages

\* The largest delay of a decision whose base delay is drawn from
\* [minDelayMs/2, minDelayMs]: the base or the floor, the new-chat term, the
\* typing term.
ClaimFastest(L, recipient, content) ==
    config.rateLimiter.minDelayMs
    + (IF recipient \in L.knownChats THEN 0 ELSE config.rateLimiter.newChatDelayMs)
    + Min(Len(content) * TypingMsPerChar, TypingMaxMs)

(* C22: the base delay is drawn from [minDelayMs/2, minDelayMs] while the  *)
(* burst counter is below burstAllowance and from [minDelayMs, maxDelayMs] *)
(* afterwards; a send recorded at least 30 seconds after the previous      *)
(* recorded send resets the burst counter, so that the next un-throttled   *)
(* decision uses the faster range again.                                   *)
C22_BurstResetAfterQuiet ==
    [][ ( /\ ret'.op = "rateLimiter.record"
          /\ config.rateLimiter.burstAllowance > 0
          /\ rateLimiter.lastMessageTime > 0
          /\ now - rateLimiter.lastMessageTime >= 30000 )
        => /\ rateLimiter'.burstCount = 0
           /\ \A recipient \in Recipients, content \in Contents :
                 (ClaimUnthrottled(content))' =>
                     \A result \in DelayResults(rateLimiter', now', recipient, content) :
                         result <= ClaimFastest(rateLimiter', recipient, content)
      ]_vars

----------------------------------------------------------------------------
(* The RateLimiter driven alone across the 24-hour retention of its records *)

\* Limits above the identical-message limit, a per-minute limit that
\* throttles before the identical check is reached, and a new-chat delay.
InitRetention ==
    /\ now = StartClock
    /\ ops = 0
    /\ config \in { [ rateLimiter |-> c,
                       warmUp |-> WUConfig(1, 2, 2, 1, 24),
                       health |-> HMConfig(1, 2, 1, "high") ] :
                     c \in { RLConfig(2, 2, 3, 1000, 1000, 0, 1, 1),
                             RLConfig(1, 3, 3, 1000, 1000, 0, 1, 1),
                             RLConfig(3, 3, 3, 1000, 1000, 600, 2, 1) } }
    /\ rateLimiter = NewRateLimiter
    /\ warmUp = WU_freshState(StartClock)
    /\ health = NewHealthMonitor(StartClock)
    /\ stats = NewStats
    /\ ret = NoCall("new")
    /\ lastNotified = "none"
    /\ objects = NoObjects
    /\ socket = NoSocket
    /\ queue = NoQueue

RetentionTick ==
    \E d \in {HourMs, DayMs} :
        /\ Budget(MaxLimiterOps)
        /\ now' = now + d
        /\ ret' = NoCall("tick")
        /\ UNCHANGED <<config, rateLimiter, warmUp, health, stats, lastNotified, objects, socket, queue>>

NextRetention ==
    \/ RetentionTick
    \/ GetDelay
    \/ Record
    \/ LimiterGetStats

SpecRetention == InitRetention /\ [][NextRetention]_vars

----------------------------------------------------------------------------
(* Claims C23.. *)

\* No identical-message counter is lower after the step than before it.
ClaimCountersKept ==
    \A k \in DOMAIN rateLimiter.identicalCount :
        /\ k \in DOMAIN rateLimiter'.identicalCount
        /\ rateLimiter'.identicalCount[k] >= rateLimiter.identicalCount[k]

ClaimCountAt(t, window) ==
    Cardinality({ i \in 1..Len(rateLimiter.messages) :
                    t - rateLimiter.messages[i].timestamp < window })

\* getDelay returns exactly the time until the oldest record of the window
\* leaves it, a value in (0, window]; at the clock advanced by that value the
\* oldest record is outside the window and the window holds fewer records.
ClaimThrottled(window, recipient, content) ==
    LET d == (ClaimOldest(window) + window) - now
    IN  /\ DelayResults(rateLimiter, now, recipient, content) = {d}
        /\ d > 0
        /\ d <= window
        /\ (now + d) - ClaimOldest(window) >= window
        /\ ClaimCountAt(now + d, window) < ClaimCount(window)

(* C24: when the daily cap is not reached and the trailing hour holds       *)
(* maxPerHour or more records (respectively the hourly limit is not reached *)
(* and the trailing 60 seconds hold maxPerMinute or more), getDelay returns *)
(* exactly oldest in-window timestamp + window - now, a value in            *)
(* (0, window]; once the clock has advanced by that delay with no new       *)
(* record, the oldest record has left the window and the window count is    *)
(* strictly smaller.  (The window holds at least one record.)               *)
C24_ThrottleUntilOldestLeaves ==
    \A recipient \in Recipients, content \in Contents :
        /\ ( /\ ClaimCount(DayMs) < config.rateLimiter.maxPerDay
             /\ ClaimCount(HourMs) >= config.rateLimiter.maxPerHour
             /\ ClaimCount(HourMs) >= 1 )
           => ClaimThrottled(HourMs, recipient, content)
        /\ ( /\ ClaimCount(DayMs) < config.rateLimiter.maxPerDay
             /\ ClaimCount(HourMs) < config.rateLimiter.maxPerHour
             /\ ClaimCount(MinuteMs) >= config.rateLimiter.maxPerMinute
             /\ ClaimCount(MinuteMs) >= 1 )
           => ClaimThrottled(MinuteMs, recipient, content)

\* getDelay was throttled by the hourly check with two records of different
\* ages in the hour, and returned less than an hour.
C24_Witness ==
    /\ ret.op = "rateLimiter.getDelay"
    /\ ClaimCount(DayMs) < config.rateLimiter.maxPerDay
    /\ ClaimCount(HourMs) = 2
    /\ config.rateLimiter.maxPerHour = 2
    /\ rateLimiter.messages[1].timestamp < rateLimiter.messages[2].timestamp
    /\ ret.value = (rateLimiter.messages[1].timestamp + HourMs) - now
    /\ ret.value < HourMs

(* C25: for a getDelay call that is neither blocked nor throttled, the      *)
(* new-chat term (a value in [newChatDelayMs/2, newChatDelayMs]) is added   *)
(* if and only if the recipient was never passed to record() on this        *)
(* limiter: the set of recorded recipients starts empty, record() adds its  *)
(* recipient and no other call changes it, purges included; a delay for a   *)
(* recipient outside it is at least minDelayMs/2 + newChatDelayMs/2, and a  *)
(* delay for a recipient inside it carries no new-chat term (it is at most  *)
(* the larger of minDelayMs and maxDelayMs, plus the typing term).          *)
C25_NewChatIffNeverRecorded ==
    /\ [][ rateLimiter'.knownChats =
              IF ret'.op = "rateLimiter.record"
              THEN rateLimiter.knownChats \cup {ret'.args[1]}
              ELSE rateLimiter.knownChats ]_vars
    /\ [] ( \A recipient \in Recipients, content \in Contents :
              ClaimUnthrottled(content) =>
                \A result \in DelayResults(rateLimiter, now, recipient, content) :
                    IF recipient \in rateLimiter.knownChats
                    THEN result <= Max(config.rateLimiter.minDelayMs,
                                       config.rateLimiter.maxDelayMs)
                                   + Min(Len(content) * TypingMsPerChar, TypingMaxMs)
                    ELSE 2 * result >= config.rateLimiter.minDelayMs
                                       + config.rateLimiter.newChatDelayMs )

\* getDelay paced a message to a recipient recorded a day ago, none of whose
\* records the limiter still holds, with a new-chat delay configured.
C25_Witness ==
    /\ ret.op = "rateLimiter.getDelay"
    /\ ret.value >= 0
    /\ ClaimUnthrottled(ret.args[2])
    /\ config.rateLimiter.newChatDelayMs > 0
    /\ ret.args[1] \in rateLimiter.knownChats
    /\ \A i \in 1..Len(rateLimiter.messages) :
          rateLimiter.messages[i].recipient # ret.args[1]

\* The detail of the most recently recorded disconnect, forbidden or
\* loggedOut event if that event is younger than 6 hours, else absent.
ClaimLastDisconnect ==
    LET idx == { i \in 1..Len(health.events) :
                   health.events[i].type \in {"disconnect", "forbidden", "loggedOut"} }
        last == CHOOSE i \in idx : \A j \in idx : j <= i
    IN  IF idx # {} /\ now - health.events[last].timestamp < SixHoursMs
        THEN health.events[last].detail
        ELSE "undefined"

\* The events of log E younger than 6 hours at clock t, in order.
ClaimRetained(E, t) == SelectSeq(E, LAMBDA e : t - e.timestamp < SixHoursMs)

(* C26: an event counts in the score, the level and the windowed stats      *)
(* exactly while its age is below 1 hour at the query; lastDisconnectReason *)
(* is the detail of the most recently recorded disconnect, forbidden or     *)
(* loggedOut event while that event is younger than 6 hours and absent      *)
(* otherwise; and only the 6-hour purge and reset() remove events: a step   *)
(* other than reset() keeps every event younger than 6 hours, in order, and *)
(* adds at most one.                                                        *)
C26_HourWindowSixHourRetention ==
    /\ [] ( LET s == HM_getStatus(health, config.health, now).result
            IN  /\ s.score = ClaimScore
                /\ s.risk = ClaimLevel
                /\ s.stats.disconnectsLastHour = ClaimEvents("disconnect")
                /\ s.stats.failedMessagesLastHour = ClaimEvents("messageFailed")
                /\ s.stats.forbiddenErrors = ClaimEvents("forbidden")
                /\ s.stats.lastDisconnectReason = ClaimLastDisconnect )
    /\ [][ IF ret'.op = "health.reset"
           THEN health'.events = <<>>
           ELSE LET before == ClaimRetained(health.events, now')
                    after == ClaimRetained(health'.events, now')
                IN  /\ Len(after) \in {Len(before), Len(before) + 1}
                    /\ SubSeq(after, 1, Len(before)) = before
                    /\ Len(health'.events) <= Len(health.events) + 1 ]_vars

\* getStatus reported the reason of a disconnect that no longer counts in the
\* score: recorded an hour or more ago, less than 6 hours ago.
C26_Witness ==
    /\ ret.op = "health.getStatus"
    /\ ret.value.score = 0
    /\ ret.value.stats.disconnectsLastHour = 0
    /\ ret.value.stats.lastDisconnectReason = "408"
    /\ Len(health.events) >= 1
    /\ now - health.events[Len(health.events)].timestamp >= HourMs

----------------------------------------------------------------------------
(* wrapSocket: the wrapped sendMessage, an async function whose awaits let  *)
(* other calls and events run in between, and the connection.update hook   *)

\* The start of wrappedSendMessage(jid, content) up to its first await that
\* waits: the call after beforeSend returned `decision` at clock t.  The text
\* is what the function extracts from content; the thrown Error's message is
\* the pair of the template's literal and the decision's reason.
WS_begin_sendsBlocked(decision, jid, text, t) ==
    LET call == [ jid |-> jid, text |-> text, startedAt |-> t, sentAt |-> 0,
                  allowed |-> decision.allowed, delayMs |-> decision.delayMs,
                  error |-> "undefined", pc |-> "delaying",
                  trace |-> <<"beforeSend">> ]
    IN  IF decision.delayMs > 0 THEN call
        ELSE [call EXCEPT !.pc = "sending", !.sentAt = t,
                          !.trace = Append(@, "sendMessage")]

WS_begin(decision, jid, text, t) ==
    LET call == [ jid |-> jid, text |-> text, startedAt |-> t, sentAt |-> 0,
                  allowed |-> decision.allowed, delayMs |-> decision.delayMs,
                  error |-> "undefined", pc |-> "delaying",
                  trace |-> <<"beforeSend">> ]
    IN  IF ~decision.allowed
        THEN [call EXCEPT !.pc = "thrown",
                          !.error = <<"[baileys-antiban] Message blocked: ",
                                      decision.reason>>]
        ELSE IF decision.delayMs > 0 THEN call
        ELSE [call EXCEPT !.pc = "sending", !.sentAt = t,
                          !.trace = Append(@, "sendMessage")]

\* Two limiter configurations: delays of 500 ms and more; no delay at all for
\* an empty text.
InitSocket ==
    /\ now = StartClock
    /\ ops = 0
    /\ config \in { [ rateLimiter |-> c,
                       warmUp |-> WUConfig(1, 2, 2, 1, 24),
                       health |-> HMConfig(1, 2, 1, "high") ] :
                     c \in { RLConfig(1, 3, 3, 1000, 1000, 0, 1, 1),
                             RLConfig(2, 3, 3, 0, 0, 0, 2, 1) } }
    /\ rateLimiter = NewRateLimiter
    /\ warmUp = WU_freshState(StartClock)
    /\ health = NewHealthMonitor(StartClock)
    /\ stats = NewStats
    /\ ret = NoCall("new")
    /\ lastNotified = "none"
    /\ objects = NoObjects
    /\ socket = NoSocket
    /\ queue = NoQueue

SocketTick ==
    \E d \in {1000, MinuteMs} :
        /\ Budget(MaxSocketOps)
        /\ now' = now + d
        /\ ret' = NoCall("tick")
        /\ UNCHANGED <<config, rateLimiter, warmUp, health, stats, lastNotified, objects,
                       socket, queue>>

\* safeSock.sendMessage(jid, content) is called: beforeSend, then the throw,
\* the timer or the underlying sendMessage.
WrappedSendMessage ==
    \E jid \in SendRecipients, text \in SendContents :
        /\ Budget(MaxSocketOps)
        /\ Len(socket) < MaxCalls
        /\ \E o \in AB_beforeSend(health, warmUp, rateLimiter, stats, config, now, jid, text) :
              /\ health' = o.health
              /\ warmUp' = o.warmUp
              /\ rateLimiter' = o.rateLimiter
              /\ stats' = o.stats
              /\ socket' = Append(socket, WS_begin(o.decision, jid, text, now))
              /\ ret' = [NoCall("sendMessage") EXCEPT
                            !.args = <<jid, text>>, !.value = o.decision,
                            !.calls = <<"antiban.beforeSend">>]
        /\ UNCHANGED <<now, config, lastNotified, objects, queue>>

\* The setTimeout of a waiting call fires: originalSendMessage is called.
TimerFires ==
    \E c \in DOMAIN socket :
        /\ Budget(MaxSocketOps)
        /\ socket[c].pc = "delaying"
        /\ now >= socket[c].startedAt + socket[c].delayMs
        /\ socket' = [socket EXCEPT ![c].pc = "sending", ![c].sentAt = now,
                                    ![c].trace = Append(@, "sendMessage")]
        /\ ret' = [NoCall("originalSendMessage") EXCEPT !.args = <<c>>]
        /\ UNCHANGED <<now, config, rateLimiter, warmUp, health, stats, lastNotified,
                       objects, queue>>

\* The underlying sendMessage resolves: afterSend(jid, text), the result is
\* returned.
SendResolves ==
    \E c \in DOMAIN socket :
        /\ Budget(MaxSocketOps)
        /\ socket[c].pc = "sending"
        /\ rateLimiter' = RL_record(rateLimiter, now, socket[c].jid, socket[c].text)
        /\ warmUp' = WU_record(warmUp, now)
        /\ stats' = [stats EXCEPT !.messagesAllowed = @ + 1]
        /\ socket' = [socket EXCEPT ![c].pc = "returned",
                                    ![c].trace = Append(@, "afterSend")]
        /\ ret' = [NoCall("afterSend") EXCEPT
                      !.args = <<socket[c].jid, socket[c].text>>,
                      !.calls = <<"rateLimiter.record", "warmUp.record">>]
        /\ UNCHANGED <<now, config, health, lastNotified, objects, queue>>

\* The underlying sendMessage rejects: afterSendFailed(error.message), the
\* error is thrown again.
SendRejects ==
    \E c \in DOMAIN socket, error \in Errors :
        /\ Budget(MaxSocketOps)
        /\ socket[c].pc = "sending"
        /\ Notifying("afterSendFailed", error,
                     HM_recordMessageFailed(health, config.health, now, error))
        /\ socket' = [socket EXCEPT ![c].pc = "thrown", ![c].error = error,
                                    ![c].trace = Append(@, "afterSendFailed")]
        /\ UNCHANGED <<now, config, rateLimiter, warmUp, stats, objects, queue>>

\* sock.ev emits connection.update: 'close' with or without a status code,
\* or 'open'.
ConnectionUpdate ==
    \E update \in { [connection |-> "close", statusCode |-> "403"],
                    [connection |-> "close", statusCode |-> "undefined"],
                    [connection |-> "open", statusCode |-> "undefined"] } :
        /\ Budget(MaxSocketOps)
        /\ IF update.connection = "close"
           THEN LET reason == IF update.statusCode = "undefined" THEN "unknown"
                              ELSE update.statusCode
                IN  Notifying("onDisconnect", reason,
                              HM_recordDisconnect(health, config.health, now, reason))
           ELSE /\ health' = HM_recordReconnect(health, now)
                /\ ret' = NoCall("onReconnect")
                /\ UNCHANGED lastNotified
        /\ UNCHANGED <<now, config, rateLimiter, warmUp, stats, objects, socket, queue>>

NextSocket ==
    \/ SocketTick
    \/ WrappedSendMessage
    \/ TimerFires
    \/ SendResolves
    \/ SendRejects
    \/ ConnectionUpdate

SpecSocket == InitSocket /\ [][NextSocket]_vars

\* How often a call appears in the trace of a wrapped call.
ClaimCalls(call, name) ==
    Cardinality({ i \in 1..Len(call.trace) : call.trace[i] = name })

(* C27: each call of the wrapped sendMessage ends in exactly one of three   *)
(* outcomes: (a) the decision is blocked, an error mentioning               *)
(* 'baileys-antiban' is thrown and the underlying sendMessage is never      *)
(* called; (b) the underlying sendMessage is called exactly once, only      *)
(* after the decision's delay, succeeds, and afterSend is then called       *)
(* exactly once; (c) the underlying sendMessage is called exactly once,     *)
(* fails, afterSendFailed is called exactly once, afterSend is not called,  *)
(* and the original error is thrown again.  The engine saw exactly these    *)
(* calls: one recorded send per outcome (b).                                *)
C27_ThreeOutcomes ==
    /\ \A c \in DOMAIN socket :
          LET call == socket[c]
              blocked == /\ ~call.allowed
                         /\ call.pc = "thrown"
                         /\ call.error[1] = "[baileys-antiban] Message blocked: "
                         /\ call.trace = <<"beforeSend">>
              sent == /\ call.allowed
                      /\ call.pc = "returned"
                      /\ call.trace = <<"beforeSend", "sendMessage", "afterSend">>
              failed == /\ call.allowed
                        /\ call.pc = "thrown"
                        /\ call.error \in Errors
                        /\ call.trace = <<"beforeSend", "sendMessage", "afterSendFailed">>
          IN  /\ call.pc \in {"returned", "thrown"} => blocked \/ sent \/ failed
              /\ ClaimCalls(call, "sendMessage") <= 1
              /\ ClaimCalls(call, "sendMessage") = 1 =>
                    /\ call.allowed
                    /\ call.sentAt >= call.startedAt + call.delayMs
    /\ stats.messagesAllowed
          = Cardinality({ c \in DOMAIN socket : ClaimCalls(socket[c], "afterSend") = 1 })
    /\ Len(rateLimiter.messages)
          = Cardinality({ c \in DOMAIN socket : socket[c].pc = "returned" })

\* One call waited for its delay, was sent and failed with the transport's
\* error, while a second call was made in between.
C27_Witness ==
    \E c \in DOMAIN socket, d \in DOMAIN socket :
        /\ c < d
        /\ socket[c].pc = "thrown"
        /\ socket[c].delayMs > 0
        /\ socket[c].sentAt >= socket[c].startedAt + socket[c].delayMs
        /\ socket[c].trace = <<"beforeSend", "sendMessage", "afterSendFailed">>
        /\ socket[c].error = "timeout"
        /\ socket[d].startedAt < socket[c].sentAt

----------------------------------------------------------------------------
(* MessageQueue.  Message objects are kept by id in `messages` (ids are the *)
(* values of idCounter); this.queue and the array returned by export() are *)
(* sequences of ids, so both refer to the same objects, as in the code.    *)
(* An Error's message is a sequence of parts; the wrapped sendMessage      *)
(* throws <<"[baileys-antiban] Message blocked: ", reason>>.  inFlight     *)
(* holds, per processNext() invocation suspended at its await, the id of   *)
(* its message; timers is the number of intervals set and not cleared.     *)

\* The queue after the constructor, setSendFunction(fn) and start().
NewMessageQueue(cfg) ==
    [ config |-> cfg, messages |-> <<>>, queue |-> <<>>, processing |-> FALSE,
      current |-> 0, sendFn |-> TRUE, drainTimer |-> TRUE, idCounter |-> 0,
      exported |-> <<>>, inFlight |-> <<>>, timers |-> 1 ]

\* !m.scheduledFor || m.scheduledFor <= now (scheduledFor 0: undefined)
MQ_due(m, t) == m.scheduledFor = 0 \/ m.scheduledFor <= t

priorityWeight(priority) ==
    CASE priority = "high" -> 0 [] priority = "normal" -> 1 [] priority = "low" -> 2

\* sortQueue() ordering by age alone
MQ_sortQueue_byAge(Q) ==
    LET q == Q.queue
        Before(i, j) ==
            \/ Q.messages[q[i]].addedAt < Q.messages[q[j]].addedAt
            \/ Q.messages[q[i]].addedAt = Q.messages[q[j]].addedAt /\ i < j
        Place(i) == Cardinality({ j \in 1..Len(q) : Before(j, i) })
    IN  IF ~Q.config.priorityOrder THEN Q
        ELSE [Q EXCEPT !.queue =
                [k \in 1..Len(q) |-> q[CHOOSE i \in 1..Len(q) : Place(i) = k - 1]]]

\* sortQueue(): Array.prototype.sort is stable; the comparator orders by
\* priority weight, then by addedAt.
MQ_sortQueue(Q) ==
    LET q == Q.queue
        Compare(i, j) ==
            LET pDiff == priorityWeight(Q.messages[q[i]].priority)
                         - priorityWeight(Q.messages[q[j]].priority)
            IN  IF pDiff # 0 THEN pDiff
                ELSE Q.messages[q[i]].addedAt - Q.messages[q[j]].addedAt
        Before(i, j) == Compare(i, j) < 0 \/ (Compare(i, j) = 0 /\ i < j)
        Place(i) == Cardinality({ j \in 1..Len(q) : Before(j, i) })
    IN  IF ~Q.config.priorityOrder THEN Q
        ELSE [Q EXCEPT !.queue =
                [k \in 1..Len(q) |-> q[CHOOSE i \in 1..Len(q) : Place(i) = k - 1]]]

\* this.queue.filter(m => m.id !== id)
MQ_without(Q, id) == [Q EXCEPT !.queue = SelectSeq(@, LAMBDA x : x # id)]

\* add(recipient, content, {priority, scheduledFor}) at clock t:
\* [threw, id, queue, emitted]; priority "undefined": option absent.
MQ_add_unchecked(Q, t, priority, scheduledFor) ==
    LET id == Q.idCounter + 1
        message == [ id |-> id,
                     priority |-> IF priority = "undefined" THEN "normal" ELSE priority,
                     addedAt |-> t, attempts |-> 0,
                     maxAttempts |-> Q.config.maxAttempts,
                     scheduledFor |-> scheduledFor, lastError |-> "undefined" ]
        Q1 == [Q EXCEPT !.idCounter = id,
                        !.messages = Append(@, message),
                        !.queue = Append(@, id)]
    IN  [ threw |-> FALSE, id |-> id, queue |-> MQ_sortQueue(Q1),
          emitted |-> << <<"added", id>> >> ]

MQ_add(Q, t, priority, scheduledFor) ==
    IF Len(Q.queue) >= Q.config.maxQueueSize
    THEN [ threw |-> TRUE, id |-> 0, queue |-> Q, emitted |-> <<>> ]
    ELSE LET id == Q.idCounter + 1
             message == [ id |-> id,
                          priority |-> IF priority = "undefined" THEN "normal" ELSE priority,
                          addedAt |-> t, attempts |-> 0,
                          maxAttempts |-> Q.config.maxAttempts,
                          scheduledFor |-> scheduledFor, lastError |-> "undefined" ]
             Q1 == [Q EXCEPT !.idCounter = id,
                             !.messages = Append(@, message),
                             !.queue = Append(@, id)]
         IN  [ threw |-> FALSE, id |-> id, queue |-> MQ_sortQueue(Q1),
               emitted |-> << <<"added", id>> >> ]

\* addBulk(recipients, content, {priority}) with n recipients: map stops at
\* the first add that throws.
RECURSIVE MQ_addBulk(_, _, _, _)
MQ_addBulk(Q, t, n, priority) ==
    IF n = 0 THEN [ threw |-> FALSE, ids |-> <<>>, queue |-> Q, emitted |-> <<>> ]
    ELSE LET a == MQ_add(Q, t, priority, 0)
             rest == MQ_addBulk(a.queue, t, n - 1, priority)
         IN  IF a.threw
             THEN [ threw |-> TRUE, ids |-> <<>>, queue |-> Q, emitted |-> <<>> ]
             ELSE [ threw |-> rest.threw, ids |-> <<a.id>> \o rest.ids,
                    queue |-> rest.queue, emitted |-> a.emitted \o rest.emitted ]

\* processNext() at clock t up to its await: the first due message of the
\* queue is counted as attempted and handed to sendFn.
MQ_processNext_reentrant(Q, t) ==
    LET dueAt == { i \in 1..Len(Q.queue) : MQ_due(Q.messages[Q.queue[i]], t) }
        id == Q.queue[CHOOSE i \in dueAt : \A j \in dueAt : i <= j]
    IN  IF ~Q.sendFn \/ dueAt = {} THEN Q
        ELSE [Q EXCEPT !.processing = TRUE, !.current = id,
                       !.messages[id].attempts = @ + 1,
                       !.inFlight = Append(@, id)]

MQ_processNext(Q, t) ==
    LET dueAt == { i \in 1..Len(Q.queue) : MQ_due(Q.messages[Q.queue[i]], t) }
        id == Q.queue[CHOOSE i \in dueAt : \A j \in dueAt : i <= j]
    IN  IF Q.processing \/ ~Q.sendFn \/ dueAt = {} THEN Q
        ELSE [Q EXCEPT !.processing = TRUE, !.current = id,
                       !.messages[id].attempts = @ + 1,
                       !.inFlight = Append(@, id)]

\* err.message?.includes('baileys-antiban')
MQ_includesAntiban(message) ==
    \E i \in 1..Len(message) : message[i] = "[baileys-antiban] Message blocked: "

\* processNext() after its await, counting a rejection by the anti-ban as an
\* attempt like any other failure
MQ_settle_countsRejections(Q, t, err) ==
    LET id == Q.current
        m == Q.messages[id]
        first == CHOOSE k \in 1..Len(Q.inFlight) :
                     Q.inFlight[k] = id /\ \A j \in 1..(k - 1) : Q.inFlight[j] # id
        done == [Q EXCEPT !.processing = FALSE, !.current = 0,
                          !.inFlight = SubSeq(@, 1, first - 1)
                                       \o SubSeq(@, first + 1, Len(@))]
        failed == [done EXCEPT !.messages[id].lastError = err]
    IN  IF err = <<>>
        THEN [ queue |-> MQ_without(done, id), emitted |-> << <<"sent", id>> >> ]
        ELSE IF m.attempts >= m.maxAttempts
        THEN [ queue |-> MQ_without(failed, id), emitted |-> << <<"failed", id>> >> ]
        ELSE IF MQ_includesAntiban(err)
        THEN [ queue |-> failed, emitted |-> << <<"delayed", id>> >> ]
        ELSE [ queue |-> [failed EXCEPT !.messages[id].scheduledFor =
                              t + Q.config.retryBaseDelayMs * Pow(2, m.attempts - 1)],
               emitted |-> << <<"retry", id>> >> ]

\* processNext() after its await, at clock t: sendFn resolved (err <<>>) or
\* rejected with an Error whose message is err: [queue, emitted].  The
\* invocation resumed is the one of message Q.current.
MQ_settle(Q, t, err) ==
    LET id == Q.current
        m == Q.messages[id]
        first == CHOOSE k \in 1..Len(Q.inFlight) :
                     Q.inFlight[k] = id /\ \A j \in 1..(k - 1) : Q.inFlight[j] # id
        done == [Q EXCEPT !.processing = FALSE, !.current = 0,
                          !.inFlight = SubSeq(@, 1, first - 1)
                                       \o SubSeq(@, first + 1, Len(@))]
        failed == [done EXCEPT !.messages[id].lastError = err]
    IN  IF err = <<>>
        THEN [ queue |-> MQ_without(done, id), emitted |-> << <<"sent", id>> >> ]
        ELSE IF MQ_includesAntiban(err)
        THEN [ queue |-> [failed EXCEPT !.messages[id].attempts = @ - 1],
               emitted |-> << <<"delayed", id>> >> ]
        ELSE IF m.attempts >= m.maxAttempts
        THEN [ queue |-> MQ_without(failed, id), emitted |-> << <<"failed", id>> >> ]
        ELSE [ queue |-> [failed EXCEPT !.messages[id].scheduledFor =
                              t + Q.config.retryBaseDelayMs * Pow(2, m.attempts - 1)],
               emitted |-> << <<"retry", id>> >> ]

\* A queue of one attempt per message kept in insertion order, and a queue of
\* three attempts per message ordered by priority.
InitQueue ==
    /\ now = StartClock
    /\ ops = 0
    /\ config = [ rateLimiter |-> RLConfig(1, 3, 3, 1000, 1000, 0, 1, 1),
                  warmUp |-> WUConfig(1, 2, 2, 1, 24),
                  health |-> HMConfig(1, 2, 1, "high") ]
    /\ rateLimiter = NewRateLimiter
    /\ warmUp = WU_freshState(StartClock)
    /\ health = NewHealthMonitor(StartClock)
    /\ stats = NewStats
    /\ ret = NoCall("new")
    /\ lastNotified = "none"
    /\ objects = NoObjects
    /\ socket = NoSocket
    /\ queue \in { NewMessageQueue([ maxAttempts |-> 1, retryBaseDelayMs |-> 1000,
                                     maxQueueSize |-> 2, priorityOrder |-> FALSE ]),
                   NewMessageQueue([ maxAttempts |-> 3, retryBaseDelayMs |-> 1000,
                                     maxQueueSize |-> 3, priorityOrder |-> TRUE ]) }

Engine == <<config, rateLimiter, warmUp, health, stats, lastNotified, objects, socket>>

QueueTick ==
    /\ Budget(MaxQueueOps)
    /\ now' = now + 1000
    /\ ret' = NoCall("tick")
    /\ UNCHANGED <<Engine, queue>>

Add ==
    \E options \in { [priority |-> "high", scheduledFor |-> 0],
                     [priority |-> "undefined", scheduledFor |-> now + 1000],
                     [priority |-> "low", scheduledFor |-> 0] } :
        LET a == MQ_add(queue, now, options.priority, options.scheduledFor)
        IN  /\ Budget(MaxQueueOps)
            /\ queue' = a.queue
            /\ ret' = [NoCall("queue.add") EXCEPT
                          !.args = <<options.priority, options.scheduledFor>>,
                          !.value = IF a.threw THEN <<"Queue full">> ELSE a.id,
                          !.callbacks = a.emitted]
            /\ UNCHANGED <<now, Engine>>

AddBulk ==
    LET a == MQ_addBulk(queue, now, 2, "undefined")
    IN  /\ Budget(MaxQueueOps)
        /\ queue' = a.queue
        /\ ret' = [NoCall("queue.addBulk") EXCEPT
                      !.args = <<2, "undefined">>,
                      !.value = IF a.threw THEN <<"Queue full">> ELSE a.ids,
                      !.callbacks = a.emitted]
        /\ UNCHANGED <<now, Engine>>

\* The drain timer fires: processNext() up to its await; ret.value is the id
\* of the message handed to sendFn, 0 when the call returned at once.
ProcessNext ==
    /\ Budget(MaxQueueOps)
    /\ queue.timers > 0
    /\ queue' = MQ_processNext(queue, now)
    /\ ret' = [NoCall("queue.processNext") EXCEPT
                  !.value = IF queue' = queue THEN 0 ELSE queue'.current]
    /\ UNCHANGED <<now, Engine>>

\* sendFn settles: a suspended processNext() goes on after its await.
SendFnSettles ==
    \E err \in { <<>>, <<"timeout">>,
                 <<"[baileys-antiban] Message blocked: ", "Health risk">> } :
        \E k \in DOMAIN queue.inFlight :
            LET s == MQ_settle([queue EXCEPT !.current = queue.inFlight[k]], now, err)
            IN  /\ Budget(MaxQueueOps)
                /\ queue' = s.queue
                /\ ret' = [NoCall("queue.settle") EXCEPT
                              !.args = <<queue.inFlight[k], err>>,
                              !.callbacks = s.emitted]
                /\ UNCHANGED <<now, Engine>>

Remove ==
    \E id \in 1..Min(queue.idCounter, 2) :
        /\ Budget(MaxQueueOps)
        /\ queue' = MQ_without(queue, id)
        /\ ret' = [NoCall("queue.remove") EXCEPT
                      !.args = <<id>>, !.value = Len(queue'.queue) < Len(queue.queue)]
        /\ UNCHANGED <<now, Engine>>

\* export(): a new array of the same message objects.
Export ==
    /\ Budget(MaxQueueOps)
    /\ queue' = [queue EXCEPT !.exported = queue.queue]
    /\ ret' = [NoCall("queue.export") EXCEPT !.value = queue.queue]
    /\ UNCHANGED <<now, Engine>>

\* import(messages) with the array export() returned last.
Import ==
    /\ Budget(MaxQueueOps)
    /\ queue' = MQ_sortQueue([queue EXCEPT !.queue = queue.exported])
    /\ ret' = [NoCall("queue.import") EXCEPT !.args = <<queue.exported>>]
    /\ UNCHANGED <<now, Engine>>

NextQueue ==
    \/ QueueTick
    \/ Add
    \/ AddBulk
    \/ ProcessNext
    \/ SendFnSettles
    \/ Remove
    \/ Export
    \/ Import

SpecQueue == InitQueue /\ [][NextQueue]_vars

(* C28: a queued message whose send fails with an error that does not       *)
(* mention the anti-ban is attempted at most maxAttempts times: only a due  *)
(* message with attempts < maxAttempts is attempted; after its k-th failure *)
(* with k < maxAttempts it stays queued with scheduledFor = now +            *)
(* retryBaseDelayMs * 2^(k-1) and 'retry' is emitted; after its             *)
(* maxAttempts-th failure it is removed and 'failed' is emitted once; and   *)
(* in every reachable state 0 <= attempts <= maxAttempts for every queued   *)
(* message.                                                                 *)
C28_AttemptsBoundedByMaxAttempts ==
    /\ [] ( \A i \in 1..Len(queue.queue) :
              LET m == queue.messages[queue.queue[i]]
              IN  0 <= m.attempts /\ m.attempts <= m.maxAttempts )
    /\ [][ /\ (ret'.op = "queue.processNext" /\ ret'.value # 0) =>
                 LET m == queue.messages[ret'.value]
                 IN  /\ m.scheduledFor = 0 \/ m.scheduledFor <= now
                     /\ m.attempts < m.maxAttempts
           /\ (ret'.op = "queue.settle" /\ ret'.args[2] = <<"timeout">>) =>
                 LET id == ret'.args[1]
                     m == queue.messages[id]
                 IN  IF m.attempts < m.maxAttempts
                     THEN /\ id \in Range(queue.queue) => id \in Range(queue'.queue)
                          /\ queue'.messages[id].scheduledFor
                                = now + queue.config.retryBaseDelayMs * Pow(2, m.attempts - 1)
                          /\ ret'.callbacks = << <<"retry", id>> >>
                     ELSE /\ id \notin Range(queue'.queue)
                          /\ ret'.callbacks = << <<"failed", id>> >> ]_vars

(* C29: with priorityOrder enabled, each drain step hands to sendFn, among  *)
(* the queued messages that are due (no scheduledFor, or scheduledFor <=    *)
(* now), one of highest priority (high before normal before low) and,       *)
(* within that priority, the one added earliest; whatever adds, bulk adds,  *)
(* imports, removals, retries and completed sends came before.              *)
C29_DrainsByPriorityThenAge ==
    [][ ( /\ ret'.op = "queue.processNext"
          /\ ret'.value # 0
          /\ queue.config.priorityOrder )
        => LET m == queue.messages[ret'.value]
           IN  /\ ret'.value \in Range(queue.queue)
               /\ m.scheduledFor = 0 \/ m.scheduledFor <= now
               /\ \A i \in 1..Len(queue.queue) :
                     LET o == queue.messages[queue.queue[i]]
                     IN  (o.scheduledFor = 0 \/ o.scheduledFor <= now) =>
                            \/ priorityWeight(m.priority) < priorityWeight(o.priority)
                            \/ /\ m.priority = o.priority
                               /\ \/ m.addedAt < o.addedAt
                                  \/ m.addedAt = o.addedAt /\ m.id <= o.id
      ]_vars

\* A drain step took a message of higher priority than a due message added
\* before it, and left a message added with it in one bulk behind.
C29_Witness ==
    /\ ret.op = "queue.processNext"
    /\ ret.value # 0
    /\ queue.config.priorityOrder
    /\ \E i \in 1..Len(queue.queue) :
          LET o == queue.messages[queue.queue[i]]
          IN  /\ o.id < ret.value
              /\ o.scheduledFor = 0
              /\ priorityWeight(o.priority) > priorityWeight(queue.messages[ret.value].priority)
    /\ \E i \in 1..Len(queue.queue) :
          LET o == queue.messages[queue.queue[i]]
          IN  /\ o.id > ret.value
              /\ o.addedAt = queue.messages[ret.value].addedAt
              /\ o.priority = queue.messages[ret.value].priority

(* C30: add() on a queue already holding maxQueueSize messages throws       *)
(* 'Queue full', leaves the queue unchanged and emits no 'added' event; no  *)
(* add or addBulk call makes the queue longer than maxQueueSize, and the    *)
(* queue never is.                                                          *)
C30_FullQueueRejects ==
    /\ [][ /\ ( /\ ret'.op = "queue.add"
                /\ Len(queue.queue) >= queue.config.maxQueueSize )
              => /\ ret'.value = <<"Queue full">>
                 /\ queue' = queue
                 /\ ret'.callbacks = <<>>
           /\ ( /\ ret'.op = "queue.add"
                /\ Len(queue.queue) < queue.config.maxQueueSize )
              => /\ Len(queue'.queue) = Len(queue.queue) + 1
                 /\ ret'.callbacks = << <<"added", ret'.value>> >>
           /\ ret'.op \in {"queue.add", "queue.addBulk"}
              => /\ Len(queue'.queue) <= queue.config.maxQueueSize
                 /\ Len(ret'.callbacks) = Len(queue'.queue) - Len(queue.queue) ]_vars
    /\ [] (Len(queue.queue) <= queue.config.maxQueueSize)

\* addBulk() for two recipients threw 'Queue full' at the second one, after
\* the first was added and announced; the queue is full.
C30_Witness ==
    /\ ret.op = "queue.addBulk"
    /\ ret.value = <<"Queue full">>
    /\ Len(ret.callbacks) = 1
    /\ Len(queue.queue) = queue.config.maxQueueSize

(* C31: a send attempt rejected by the anti-ban (an error whose message     *)
(* contains 'baileys-antiban', as thrown by the wrapped sendMessage) does   *)
(* not count as an attempt: the attempt raised attempts by one, nothing     *)
(* else touches the message while it is in flight, and the rejection takes  *)
(* the one back, leaves scheduledFor and the queue's content unchanged and  *)
(* emits 'delayed' alone; no such rejection removes the message or emits    *)
(* 'failed'.                                                                *)
C31_RejectionIsNotAnAttempt ==
    [][ /\ (ret'.op = "queue.processNext" /\ ret'.value # 0) =>
              /\ queue'.messages[ret'.value].attempts
                    = queue.messages[ret'.value].attempts + 1
              /\ queue'.messages[ret'.value].scheduledFor
                    = queue.messages[ret'.value].scheduledFor
        /\ (queue # NoQueue /\ queue.processing /\ ret'.op # "queue.settle") =>
              /\ queue'.processing
              /\ queue'.current = queue.current
              /\ queue'.messages[queue.current] = queue.messages[queue.current]
        /\ ( /\ ret'.op = "queue.settle"
             /\ MQ_includesAntiban(ret'.args[2])
             /\ WS_begin([allowed |-> FALSE, delayMs |-> 0, reason |-> ret'.args[2][2]],
                         "r1", "a", now).error = ret'.args[2] ) =>
              LET id == ret'.args[1]
              IN  /\ queue'.queue = queue.queue
                  /\ queue'.messages[id].attempts = queue.messages[id].attempts - 1
                  /\ queue'.messages[id].scheduledFor = queue.messages[id].scheduledFor
                  /\ ret'.callbacks = << <<"delayed", id>> >>
      ]_vars

\* A queue of one attempt per message had its only attempt at a message
\* rejected by the anti-ban: the message is still queued, with no attempt
\* counted.
C31_Witness ==
    /\ ret.op = "queue.settle"
    /\ MQ_includesAntiban(ret.args[2])
    /\ queue.config.maxAttempts = 1
    /\ ret.args[1] \in Range(queue.queue)
    /\ queue.messages[ret.args[1]].attempts = 0
    /\ queue.messages[ret.args[1]].lastError = ret.args[2]

----------------------------------------------------------------------------
(* The orchestrator driven by one caller that follows the documented       *)
(* protocol: beforeSend, and, when the decision allows, a wait of at least  *)
(* delayMs and then one afterSend, before the next beforeSend: the wrapped  *)
(* sendMessage called again only after the call before it returned or       *)
(* threw.  socket holds the latest call.                                    *)

\* Four configurations: an hourly limit above the per-minute limit; a daily
\* limit of two and a ramp that restarts after a day without a send; a ramp
\* of one send on day 0 and two on day 1; a ramp with a growth factor of 0.4,
\* one send on day 0 and none on day 1.
InitProtocol ==
    /\ now = StartClock
    /\ ops = 0
    /\ config \in { [ rateLimiter |-> RLConfig(1, 2, 3, 0, 0, 0, 3, 0),
                       warmUp |-> WUConfig(2, 3, 2, 1, 72),
                       health |-> HMConfig(1, 2, 1, "high") ],
                     [ rateLimiter |-> RLConfig(3, 3, 2, 0, 0, 0, 3, 0),
                       warmUp |-> WUConfig(2, 3, 2, 1, 24),
                       health |-> HMConfig(1, 2, 1, "high") ],
                     [ rateLimiter |-> RLConfig(3, 3, 3, 1000, 1000, 0, 3, 1),
                       warmUp |-> WUConfig(2, 1, 2, 1, 24),
                       health |-> HMConfig(1, 2, 1, "high") ],
                     [ rateLimiter |-> RLConfig(3, 3, 3, 0, 0, 0, 3, 0),
                       warmUp |-> WUConfig(2, 1, 2, 5, 72),
                       health |-> HMConfig(1, 2, 1, "high") ] }
    /\ rateLimiter = NewRateLimiter
    /\ warmUp = WU_freshState(StartClock)
    /\ health = NewHealthMonitor(StartClock)
    /\ stats = NewStats
    /\ ret = NoCall("new")
    /\ lastNotified = "none"
    /\ objects = NoObjects
    /\ socket = NoSocket
    /\ queue = NoQueue

\* Time passes, whether or not a decision is being waited out.
ProtocolTick ==
    \E d \in {HourMs - 10000, DayMs} :
        /\ Budget(MaxProtocolOps)
        /\ now' = now + d
        /\ ret' = NoCall("tick")
        /\ UNCHANGED <<config, rateLimiter, warmUp, health, stats, lastNotified, objects,
                       socket, queue>>

\* The next call starts once the one before it is over: beforeSend, then the
\* throw, the timer or the send.
ProtocolBeforeSend ==
    /\ Budget(MaxProtocolOps)
    /\ IF socket = <<>> THEN TRUE ELSE socket[1].pc \in {"returned", "thrown"}
    /\ \E o \in AB_beforeSend(health, warmUp, rateLimiter, stats, config, now, "r1", <<>>) :
          /\ health' = o.health
          /\ warmUp' = o.warmUp
          /\ rateLimiter' = o.rateLimiter
          /\ stats' = o.stats
          /\ socket' = << WS_begin(o.decision, "r1", <<>>, now) >>
          /\ ret' = [NoCall("beforeSend") EXCEPT
                        !.args = <<"r1", <<>> >>, !.value = o.decision,
                        !.calls = o.calls, !.limiterReturned = o.limiterReturned]
    /\ UNCHANGED <<now, config, lastNotified, objects, queue>>

\* The timer of the call fires, delayMs after it was set or later if the
\* clock is already past that: the message is sent.
ProtocolWait ==
    /\ Budget(MaxProtocolOps)
    /\ socket # <<>>
    /\ socket[1].pc = "delaying"
    /\ now' = Max(now, socket[1].startedAt + socket[1].delayMs)
    /\ socket' = [socket EXCEPT ![1].pc = "sending", ![1].sentAt = now',
                                ![1].trace = Append(@, "sendMessage")]
    /\ ret' = NoCall("wait")
    /\ UNCHANGED <<config, rateLimiter, warmUp, health, stats, lastNotified, objects,
                   queue>>

\* The send succeeded: afterSend.
ProtocolAfterSend ==
    /\ Budget(MaxProtocolOps)
    /\ socket # <<>>
    /\ socket[1].pc = "sending"
    /\ rateLimiter' = RL_record(rateLimiter, now, socket[1].jid, socket[1].text)
    /\ warmUp' = WU_record(warmUp, now)
    /\ stats' = [stats EXCEPT !.messagesAllowed = @ + 1]
    /\ socket' = [socket EXCEPT ![1].pc = "returned", ![1].trace = Append(@, "afterSend")]
    /\ ret' = [NoCall("afterSend") EXCEPT
                  !.args = <<socket[1].jid, socket[1].text>>,
                  !.calls = <<"rateLimiter.record", "warmUp.record">>]
    /\ UNCHANGED <<now, config, health, lastNotified, objects, queue>>

NextProtocol ==
    \/ ProtocolTick
    \/ ProtocolBeforeSend
    \/ ProtocolWait
    \/ ProtocolAfterSend

SpecProtocol == InitProtocol /\ [][NextProtocol]_vars

\* The most records any window of the given length holds: a window that
\* ends at one of the records.
ClaimWindowPeak(window) ==
    LET msgs == rateLimiter.messages
        InWindow(i) == { j \in 1..Len(msgs) :
                           /\ msgs[j].timestamp <= msgs[i].timestamp
                           /\ msgs[i].timestamp - msgs[j].timestamp < window }
    IN  IF Len(msgs) = 0 THEN 0
        ELSE Cardinality(InWindow(CHOOSE i \in 1..Len(msgs) :
                 \A k \in 1..Len(msgs) : Cardinality(InWindow(k)) <= Cardinality(InWindow(i))))

(* C32: under the serialized protocol the number of sends recorded in any   *)
(* trailing 60-second window never exceeds maxPerMinute, whatever the       *)
(* configuration of maxPerMinute, maxPerHour and maxPerDay.                 *)
C32_MinuteWindowNeverExceeded ==
    ClaimWindowPeak(MinuteMs) <= config.rateLimiter.maxPerMinute

(* C33: under the serialized protocol the number of sends recorded in any   *)
(* trailing 24-hour window never exceeds maxPerDay: a decision taken while  *)
(* the trailing 24 hours hold maxPerDay records is a block, with no delay   *)
(* to wait out and no send following it.                                    *)
C33_DailyCapIsHard ==
    /\ [] (ClaimWindowPeak(DayMs) <= config.rateLimiter.maxPerDay)
    /\ [][ ( /\ ret'.op = "beforeSend"
             /\ Cardinality({ i \in 1..Len(rateLimiter.messages) :
                                now - rateLimiter.messages[i].timestamp < DayMs })
                   >= config.rateLimiter.maxPerDay )
           => /\ ~ret'.value.allowed
              /\ ret'.value.delayMs = 0
              /\ socket'[1].pc = "thrown" ]_vars

\* The daily limit was reached, a decision was blocked for it, and after the
\* oldest record had left the 24 hours a send was recorded again.
C33_Witness ==
    /\ ret.op = "afterSend"
    /\ stats.messagesBlocked > 0
    /\ stats.messagesAllowed > config.rateLimiter.maxPerDay
    /\ Len(rateLimiter.messages) >= 1
    /\ ClaimWindowPeak(DayMs) <= config.rateLimiter.maxPerDay
    /\ config.rateLimiter.maxPerDay = 2

(* C34: under the serialized protocol starting from a fresh ramp, the count *)
(* stored for each elapsed day d < warmUpDays is at most                    *)
(* round(day1Limit * growthFactor^d) in every reachable state, also when    *)
(* the day index rolls over between an allowed decision and its afterSend.  *)
C34_DayCountsWithinSchedule ==
    \A d \in 0..(config.warmUp.warmUpDays - 1) :
        ClaimDayCount(warmUp, d) <= ClaimLimit(d)

(* C34, amended: the same, for a schedule that does not shrink              *)
(* (growthFactor >= 1).                                                     *)
C34_DayCountsWithinGrowingSchedule ==
    config.warmUp.growthNum >= config.warmUp.growthDen =>
        \A d \in 0..(config.warmUp.warmUpDays - 1) :
            ClaimDayCount(warmUp, d) <= ClaimLimit(d)

\* A send decided on day 0 was recorded on day 1, a day of the ramp: it
\* counts for day 1.
C34_Witness ==
    /\ ret.op = "afterSend"
    /\ socket[1].pc = "returned"
    /\ (socket[1].startedAt - warmUp.startedAt) \div DayMs = 0
    /\ ClaimDay = 1
    /\ ClaimDay < config.warmUp.warmUpDays
    /\ config.warmUp.growthNum >= config.warmUp.growthDen
    /\ ClaimDayCount(warmUp, 0) = 0
    /\ ClaimDayCount(warmUp, 1) = 1

\* The wrapped calls whose message was handed to the underlying sendMessage.
ClaimHandedOver == { c \in DOMAIN socket : ClaimCalls(socket[c], "sendMessage") = 1 }

\* The most messages handed over within any window of the given length.
ClaimHandedPeak(window) ==
    LET InWindow(c) == { d \in ClaimHandedOver :
                           /\ socket[d].sentAt <= socket[c].sentAt
                           /\ socket[c].sentAt - socket[d].sentAt < window }
    IN  IF ClaimHandedOver = {} THEN 0
        ELSE Cardinality(InWindow(CHOOSE c \in ClaimHandedOver :
                 \A k \in ClaimHandedOver : Cardinality(InWindow(k)) <= Cardinality(InWindow(c))))

(* C35: when calls of the wrapped sendMessage overlap, the number of        *)
(* messages handed to the underlying transport on a day of the ramp still   *)
(* never exceeds that day's limit, and the number handed over within any    *)
(* 60 seconds, hour or 24 hours never exceeds maxPerMinute, maxPerHour or   *)
(* maxPerDay.                                                               *)
C35_OverlappingCallsKeepLimits ==
    /\ \A d \in 0..(config.warmUp.warmUpDays - 1) :
          Cardinality({ c \in ClaimHandedOver :
                          (socket[c].sentAt - warmUp.startedAt) \div DayMs = d })
              <= ClaimLimit(d)
    /\ ClaimHandedPeak(MinuteMs) <= config.rateLimiter.maxPerMinute
    /\ ClaimHandedPeak(HourMs) <= config.rateLimiter.maxPerHour
    /\ ClaimHandedPeak(DayMs) <= config.rateLimiter.maxPerDay

(* C36: a ramp (of at least one warm-up day) on which no send has been      *)
(* recorded for more than inactivityThresholdHours is never treated as      *)
(* graduated: canSend() answered after such a gap leaves the ramp warming   *)
(* and compares today's count with a finite limit, and getDailyLimit()      *)
(* called after it is finite; also when warmUpDays have elapsed since       *)
(* activation and the graduated flag was never set.                         *)
C36_InactiveRampIsNotGraduated ==
    [][ ( /\ now - warmUp.lastActiveAt > config.warmUp.inactivityThresholdHours * HourMs
          /\ config.warmUp.warmUpDays > 0 )
        => /\ ret'.op = "warmUp.canSend" =>
                 /\ ~warmUp'.graduated
                 /\ ret'.value = (ClaimDayCount(warmUp', (now - warmUp'.startedAt) \div DayMs)
                                    < ClaimLimit((now - warmUp'.startedAt) \div DayMs))
           /\ ret'.op = "warmUp.getDailyLimit" => ~ret'.value.infinite
      ]_vars

\* The monitor has been observing for an hour or more, and no disconnect (of
\* any kind) and no failed message was recorded within the last hour.
ClaimQuietHour ==
    /\ now - health.startTime >= HourMs
    /\ \A i \in 1..Len(health.events) :
          health.events[i].type \in {"disconnect", "forbidden", "loggedOut", "messageFailed"}
              => now - health.events[i].timestamp >= HourMs

\* What the claim promises of the monitor at this moment.
ClaimDecayed ==
    LET s == HM_getStatus(health, config.health, now).result
    IN  /\ s.score = 0
        /\ s.risk = "low"
        /\ (~health.paused /\ config.health.autoPauseAt # "low") =>
              /\ ~HM_isPaused(health, config.health, now).result
              /\ \A o \in AB_beforeSend(health, warmUp, rateLimiter, stats, config, now,
                                         "r1", <<>>) :
                    o.decision.reason # "Health risk"

(* C37: auto-pause expires by itself: once no disconnect or failed-message  *)
(* event has been recorded for one hour, getStatus() reports score 0 and    *)
(* level low, and, unless the manual pause flag is set or autoPauseAt is    *)
(* 'low', isPaused() is false and beforeSend is not blocked by the monitor, *)
(* with no resume() or reset() call.                                        *)
C37_AutoPauseExpires ==
    ClaimQuietHour => ClaimDecayed

(* C37, amended: the same when every threshold of the configuration is at   *)
(* least 1 (an hour without events meets a threshold of 0).                 *)
C37_AutoPauseExpiresWithPositiveThresholds ==
    ( /\ ClaimQuietHour
      /\ config.health.disconnectWarningThreshold >= 1
      /\ config.health.disconnectCriticalThreshold >= 1
      /\ config.health.failedMessageThreshold >= 1 )
    => ClaimDecayed

\* isPaused() answers false an hour after the event that had raised the
\* level to the auto-pause threshold; the event is still retained, no
\* setPaused or reset was called.
C37_Witness ==
    /\ ret.op = "health.isPaused"
    /\ ret.value = FALSE
    /\ ~health.paused
    /\ config.health.autoPauseAt = "high"
    /\ health.lastRisk = "high"
    /\ Len(health.events) > 0
    /\ ClaimQuietHour

(* C38: every recordDisconnect or recordMessageFailed call after which the  *)
(* risk level is higher than the level getStatus() would have reported      *)
(* immediately before the call invokes onRiskChange exactly once, with the  *)
(* new level; also when the level had decayed over time since the last      *)
(* notification with no call in between.                                    *)
C38_EveryRiseIsNotified ==
    [][ ( /\ ret'.op \in {"health.recordDisconnect", "health.recordMessageFailed"}
          /\ Rank(HM_getStatus(health', config.health, now').result.risk)
                > Rank(HM_getStatus(health, config.health, now).result.risk) )
        => ret'.callbacks = << HM_getStatus(health', config.health, now').result.risk >>
      ]_vars

----------------------------------------------------------------------------
(* The MessageQueue with its drain timer started, stopped and started       *)
(* again, and cleared, while sends are in flight.                           *)

\* start(intervalMs): [queue, emitted]
MQ_start_unguarded(Q) ==
    [ queue |-> [Q EXCEPT !.drainTimer = TRUE, !.timers = @ + 1],
      emitted |-> << <<"started">> >> ]

MQ_start(Q) ==
    IF Q.drainTimer THEN [ queue |-> Q, emitted |-> <<>> ]
    ELSE [ queue |-> [Q EXCEPT !.drainTimer = TRUE, !.timers = @ + 1],
           emitted |-> << <<"started">> >> ]

\* stop(): [queue, emitted]
MQ_stop(Q) ==
    [ queue |-> IF Q.drainTimer
                THEN [Q EXCEPT !.drainTimer = FALSE, !.timers = @ - 1]
                ELSE Q,
      emitted |-> << <<"stopped">> >> ]

\* clear(): [queue, emitted]
MQ_clear(Q) ==
    [ queue |-> [Q EXCEPT !.queue = <<>>],
      emitted |-> << <<"cleared", Len(Q.queue)>> >> ]

\* A queue with a send function, not started yet.
InitDrain ==
    /\ now = StartClock
    /\ ops = 0
    /\ config = [ rateLimiter |-> RLConfig(1, 3, 3, 1000, 1000, 0, 1, 1),
                  warmUp |-> WUConfig(1, 2, 2, 1, 24),
                  health |-> HMConfig(1, 2, 1, "high") ]
    /\ rateLimiter = NewRateLimiter
    /\ warmUp = WU_freshState(StartClock)
    /\ health = NewHealthMonitor(StartClock)
    /\ stats = NewStats
    /\ ret = NoCall("new")
    /\ lastNotified = "none"
    /\ objects = NoObjects
    /\ socket = NoSocket
    /\ queue = [ NewMessageQueue([ maxAttempts |-> 2, retryBaseDelayMs |-> 1000,
                                   maxQueueSize |-> 2, priorityOrder |-> TRUE ])
                 EXCEPT !.drainTimer = FALSE, !.timers = 0 ]

Start ==
    LET s == MQ_start(queue)
    IN  /\ Budget(MaxQueueOps)
        /\ queue' = s.queue
        /\ ret' = [NoCall("queue.start") EXCEPT !.callbacks = s.emitted]
        /\ UNCHANGED <<now, Engine>>

Stop ==
    LET s == MQ_stop(queue)
    IN  /\ Budget(MaxQueueOps)
        /\ queue' = s.queue
        /\ ret' = [NoCall("queue.stop") EXCEPT !.callbacks = s.emitted]
        /\ UNCHANGED <<now, Engine>>

Clear ==
    LET s == MQ_clear(queue)
    IN  /\ Budget(MaxQueueOps)
        /\ queue' = s.queue
        /\ ret' = [NoCall("queue.clear") EXCEPT !.callbacks = s.emitted]
        /\ UNCHANGED <<now, Engine>>

NextDrain ==
    \/ QueueTick
    \/ Add
    \/ ProcessNext
    \/ SendFnSettles
    \/ Remove
    \/ Export
    \/ Import
    \/ Start
    \/ Stop
    \/ Clear

SpecDrain == InitDrain /\ [][NextDrain]_vars

(* C39: at most one invocation of the send function is in flight at any     *)
(* time, whatever the interleaving of timer ticks and settling sends with   *)
(* add, remove, clear, import, stop and start; the queue has at most one    *)
(* drain timer, and start() on a running queue creates none.                *)
C39_OneSendInFlightOneTimer ==
    /\ [] ( /\ Len(queue.inFlight) <= 1
            /\ queue.processing = (Len(queue.inFlight) = 1)
            /\ queue.timers <= 1
            /\ queue.drainTimer = (queue.timers = 1) )
    /\ [][ (ret'.op = "queue.start" /\ queue.drainTimer) =>
              /\ queue' = queue
              /\ ret'.callbacks = <<>> ]_vars

\* start() was called on a running queue while a send was in flight and a
\* second message was due: still one timer, one send in flight.
C39_Witness ==
    /\ ret.op = "queue.start"
    /\ ret.callbacks = <<>>
    /\ queue.timers = 1
    /\ Len(queue.inFlight) = 1
    /\ \E i \in 1..Len(queue.queue) :
          /\ queue.queue[i] # queue.inFlight[1]
          /\ MQ_due(queue.messages[queue.queue[i]], now)

----------------------------------------------------------------------------
(* The running MessageQueue draining for ever: the drain timer keeps        *)
(* firing and every call of the send function settles.  The number of       *)
(* steps is not bounded; the messages added and the clock are.              *)

InitLive ==
    /\ now = StartClock
    /\ ops = 0
    /\ config = [ rateLimiter |-> RLConfig(1, 3, 3, 1000, 1000, 0, 1, 1),
                  warmUp |-> WUConfig(1, 2, 2, 1, 24),
                  health |-> HMConfig(1, 2, 1, "high") ]
    /\ rateLimiter = NewRateLimiter
    /\ warmUp = WU_freshState(StartClock)
    /\ health = NewHealthMonitor(StartClock)
    /\ stats = NewStats
    /\ ret = NoCall("new")
    /\ lastNotified = "none"
    /\ objects = NoObjects
    /\ socket = NoSocket
    /\ queue \in { NewMessageQueue([ maxAttempts |-> 2, retryBaseDelayMs |-> 1000,
                                     maxQueueSize |-> 2, priorityOrder |-> order ]) :
                    order \in BOOLEAN }

LiveTick ==
    /\ now < StartClock + MaxLiveSeconds * 1000
    /\ now' = now + 1000
    /\ ret' = NoCall("tick")
    /\ UNCHANGED <<ops, Engine, queue>>

LiveAdd ==
    \E priority \in {"high", "low"} :
        LET a == MQ_add(queue, now, priority, 0)
        IN  /\ queue.idCounter < MaxLiveMessages
            /\ queue' = a.queue
            /\ ret' = [NoCall("queue.add") EXCEPT
                          !.args = <<priority, 0>>,
                          !.value = IF a.threw THEN <<"Queue full">> ELSE a.id,
                          !.callbacks = a.emitted]
            /\ UNCHANGED <<now, ops, Engine>>

\* The drain timer fires.
LiveDrain ==
    /\ queue.timers > 0
    /\ queue' = MQ_processNext(queue, now)
    /\ ret' = [NoCall("queue.processNext") EXCEPT
                  !.value = IF queue' = queue THEN 0 ELSE queue'.current]
    /\ UNCHANGED <<now, ops, Engine>>

\* The call of the send function settles.
LiveSettles ==
    \E err \in { <<>>, <<"timeout">>,
                 <<"[baileys-antiban] Message blocked: ", "Health risk">> } :
        \E k \in DOMAIN queue.inFlight :
            LET s == MQ_settle([queue EXCEPT !.current = queue.inFlight[k]], now, err)
            IN  /\ queue' = s.queue
                /\ ret' = [NoCall("queue.settle") EXCEPT
                              !.args = <<queue.inFlight[k], err>>,
                              !.callbacks = s.emitted]
                /\ UNCHANGED <<now, ops, Engine>>

NextLive ==
    \/ LiveTick
    \/ LiveAdd
    \/ LiveDrain
    \/ LiveSettles

SpecLive ==
    InitLive /\ [][NextLive]_vars /\ WF_vars(LiveDrain) /\ WF_vars(LiveSettles)

(* C40: while the queue is running and every call of the send function      *)
(* settles, every due message is eventually attempted: a message that keeps *)
(* being rejected by the anti-ban, or keeps failing, never keeps the due    *)
(* messages queued behind it from being attempted.                          *)
C40_DueMessagesAreAttempted ==
    \A id \in 1..MaxLiveMessages :
        ( /\ id <= queue.idCounter
          /\ id \in Range(queue.queue)
          /\ MQ_due(queue.messages[id], now) )
        ~> ( id \in Range(queue.inFlight) )

=============================================================================
